---- MODULE Spec2Model ----
(***************************************************************************)
(* t3-mono: a project scaffolder.  The model covers the artifacts the     *)
(* `add` workflow patches (package.json, prisma/schema.prisma, the two    *)
(* message bundles), the plain files its scaffolding routines write, and  *)
(* the merge functions themselves.                                        *)
(*                                                                         *)
(* Specifications:                                                         *)
(*   Spec      the add workflow (src/commands/add.rs) run repeatedly in a  *)
(*             working directory;                                          *)
(*   UnitSpec  one function, chosen with its inputs in Init, applied       *)
(*             repeatedly to one artifact;                                 *)
(*   RunSpec   one run of the program (create or add) in which an I/O      *)
(*             step may fail, followed by further add runs.                *)
(*                                                                         *)
(* Text is a sequence of tokens (whole lines and "\n"); str::replace and   *)
(* str::contains work on token sequences as they work on characters.      *)
(* JSON documents are modelled after parsing: a value is a record with a   *)
(* kind and, for an object, a map; the file keeps whether its bytes are    *)
(* still the ones found ("raw") or serde_json's pretty output ("pretty").  *)
(***************************************************************************)
EXTENDS Naturals, Sequences, FiniteSets, TLC

VARIABLES pkg, schema, en, de, files, result, ran, op, call, hist, base,
          target, fetched, cache, proc

vars == <<pkg, schema, en, de, files, result, ran, op, call, hist, base,
          target, fetched, cache, proc>>

(* ------------------------------------------------------------------ *)
(* Bounds                                                               *)
(* ------------------------------------------------------------------ *)
MaxFrag == 2
MaxChunks == 2
MaxCalls == 2
MaxAdds == 2

(* ------------------------------------------------------------------ *)
(* JSON values                                                          *)
(* ------------------------------------------------------------------ *)
EmptyMap == [k \in {} |-> ""]

JMissing == [kind |-> "missing", map |-> EmptyMap]
JNull == [kind |-> "null", map |-> EmptyMap]
JOther == [kind |-> "other", map |-> EmptyMap]
JObj(m) == [kind |-> "obj", map |-> m]

\* serde_json Value::as_object_mut: Some only for an object
as_object_mut(v) == v.kind = "obj"

\* Map::insert(key, value): adds the key or overwrites its value
MapInsert(m, k, v) == (k :> v) @@ m

\* a list of (name, version) pairs inserted one after the other (json!, insert):
\* a name of the list ends with the version of the last pair that carries it
MapOfList(m, list) ==
    LET names == {list[i][1] : i \in DOMAIN list}
        last(name) == CHOOSE i \in DOMAIN list :
                          /\ list[i][1] = name
                          /\ \A j \in DOMAIN list : list[j][1] = name => j <= i
    IN  [x \in (DOMAIN m) \cup names |-> IF x \in names THEN list[last(x)][2] ELSE m[x]]

\* a parsed package.json: the root's kind, its two dependency groups and
\* everything else at the top level (name, version, scripts, ...) as one token
Doc(root, deps, dev, rest) == [root |-> root, deps |-> deps, dev |-> dev, rest |-> rest]

\* a file holding JSON: absent, not parseable, or parseable to doc
AbsentFile == [st |-> "absent", fmt |-> "raw", doc |-> Doc("other", JMissing, JMissing, "")]
InvalidFile == [st |-> "invalid", fmt |-> "raw", doc |-> Doc("other", JMissing, JMissing, "")]
JsonFile(fmt, doc) == [st |-> "json", fmt |-> fmt, doc |-> doc]

\* serde_json::to_string_pretty followed by fs::write
WritePretty(doc) == JsonFile("pretty", doc)

\* IndexMut<&str> for Value (pkg["key"] in a mutable context): Null becomes an
\* empty object, a missing key is inserted as Null, any other root panics
IndexMutPanics(doc) == doc.root = "other"

IndexMutDeps(doc) ==
    [doc EXCEPT !.root = "obj",
                !.deps = IF doc.deps.kind = "missing" THEN JNull ELSE doc.deps]

IndexMutDev(doc) ==
    [doc EXCEPT !.root = "obj",
                !.dev = IF doc.dev.kind = "missing" THEN JNull ELSE doc.dev]

(* ------------------------------------------------------------------ *)
(* Outcomes                                                             *)
(* ------------------------------------------------------------------ *)
\* an outcome: Ok(()), Err(e) with e's message as a sequence of pieces, or a panic
Ok == [status |-> "ok", msg |-> <<>>]
Err(m) == [status |-> "err", msg |-> m]
Panic(m) == [status |-> "panic", msg |-> m]
NoResult == [status |-> "none", msg |-> <<>>]

(* ------------------------------------------------------------------ *)
(* Dependency lists of the add workflow                                 *)
(* ------------------------------------------------------------------ *)
\* the ai list carrying the versions used at creation time
ai_deps_creation_versions ==
    << <<"@langchain/anthropic", "^1.3.12">>,
       <<"@langchain/core", "^1.1.17">>,
       <<"@langchain/openai", "^1.2.3">>,
       <<"langchain", "^0.3.20">>,
       <<"zod", "^4.3.6">>,
       <<"winston", "^3.17.0">>,
       <<"pg", "^8.16.0">> >>

ai_deps ==
    << <<"@langchain/anthropic", "^1.3.18">>,
       <<"@langchain/core", "^1.1.26">>,
       <<"@langchain/openai", "^1.2.8">>,
       <<"langchain", "^1.2.25">>,
       <<"zod", "^4.3.6">>,
       <<"winston", "^3.19.0">>,
       <<"pg", "^8.18.0">> >>

ui_deps ==
    << <<"@floating-ui/react", "^0.27.18">>,
       <<"class-variance-authority", "^0.7.1">>,
       <<"clsx", "^2.1.1">>,
       <<"date-fns", "^4.1.0">>,
       <<"lucide-react", "^0.574.0">>,
       <<"react-day-picker", "^9.13.2">>,
       <<"recharts", "^2.15.4">>,
       <<"sonner", "^2.0.7">>,
       <<"tailwind-merge", "^3.4.1">> >>

cmd_deps ==
    << <<"@langchain/anthropic", "^1.3.18">>,
       <<"@langchain/cohere", "^1.0.2">>,
       <<"@langchain/core", "^1.1.26">>,
       <<"@langchain/google-genai", "^2.1.19">>,
       <<"@langchain/mistralai", "^1.0.4">>,
       <<"@langchain/ollama", "^1.2.3">>,
       <<"@langchain/openai", "^1.2.8">>,
       <<"@langchain/textsplitters", "^1.0.1">>,
       <<"langchain", "^1.2.25">>,
       <<"winston", "^3.19.0">>,
       <<"pg", "^8.18.0">>,
       <<"server-only", "^0.0.1">>,
       <<"react-markdown", "^10.1.0">>,
       <<"remark-gfm", "^4.0.1">>,
       <<"@floating-ui/react", "^0.27.18">>,
       <<"sonner", "^2.0.7">>,
       <<"class-variance-authority", "^0.7.1">>,
       <<"date-fns", "^4.1.0">>,
       <<"pdfmake", "^0.3.4">>,
       <<"exceljs", "^4.4.0">>,
       <<"pptxgenjs", "^4.0.1">>,
       <<"@aws-sdk/client-s3", "^3.993.0">>,
       <<"@aws-sdk/s3-request-presigner", "^3.993.0">> >>

cmd_dev_deps ==
    << <<"@types/pdfmake", "^0.3.1">>,
       <<"@types/pg", "^8.16.0">> >>

(* ------------------------------------------------------------------ *)
(* Dependency merge                                                     *)
(* ------------------------------------------------------------------ *)

\* the loop body with the guard dropped: an existing key is overwritten
InsertAlways(m, name, version) == MapInsert(m, name, version)

\* the loop body with the existing-key branch deleting the key
InsertOrRemove(m, name, version) ==
    IF name \in DOMAIN m
    THEN [x \in (DOMAIN m) \ {name} |-> m[x]]
    ELSE MapInsert(m, name, version)

\* if !deps.contains_key(name) { deps.insert(name, version) }
InsertIfAbsent(m, name, version) ==
    IF name \in DOMAIN m THEN m ELSE MapInsert(m, name, version)

\* the loop body run over pairs that all carry the same name
RECURSIVE MergeNamed(_, _)
MergeNamed(m, pairs) ==
    IF pairs = <<>> THEN m
    ELSE MergeNamed(InsertIfAbsent(m, pairs[1][1], pairs[1][2]), Tail(pairs))

\* for (name, version) in list { ... }: an iteration reads and writes only the
\* entry of its own name, so the loop is taken name by name, each name over
\* the pairs that carry it, in the order listed
MergeList(m, list) ==
    LET names == (DOMAIN m) \cup {list[i][1] : i \in DOMAIN list}
        entry(name) == MergeNamed([x \in (DOMAIN m) \cap {name} |-> m[x]],
                                  SelectSeq(list, LAMBDA pair : pair[1] = name))
    IN  [name \in {n \in names : n \in DOMAIN entry(n)} |-> entry(name)[name]]

\* utils::npm::merge_dependencies on a Value: each group is merged when
\* base.get_mut(group) is an object and skipped otherwise; nothing is returned
merge_dependencies(doc, additional_deps, additional_dev_deps) ==
    LET d1 == IF doc.root = "obj" /\ as_object_mut(doc.deps)
              THEN [doc EXCEPT !.deps = JObj(MergeList(doc.deps.map, additional_deps))]
              ELSE doc
    IN  IF d1.root = "obj" /\ as_object_mut(d1.dev)
        THEN [d1 EXCEPT !.dev = JObj(MergeList(d1.dev.map, additional_dev_deps))]
        ELSE d1


\* the body shared by update_package_json_ai / _ui and the first half of _cmd:
\* read, parse, pkg["dependencies"].as_object_mut().context(..)?, the insert loop
ReadDependencies(f) ==
    IF f.st = "absent" THEN Err(<<"io: cannot read package.json">>)
    ELSE IF f.st = "invalid" THEN Err(<<"json: cannot parse package.json">>)
    ELSE IF IndexMutPanics(f.doc) THEN Panic(<<"cannot access key in JSON">>)
    ELSE IF ~as_object_mut(IndexMutDeps(f.doc).deps)
         THEN Err(<<"Invalid package.json: missing dependencies">>)
    ELSE Ok

\* update_package_json_ai with the missing group skipped instead of reported
update_package_json_ai_lenient(f) ==
    IF f.st # "json" \/ IndexMutPanics(f.doc)
    THEN [res |-> ReadDependencies(f), pkg |-> f]
    ELSE LET d == IndexMutDeps(f.doc)
         IN  [res |-> Ok,
              pkg |-> WritePretty(IF as_object_mut(d.deps)
                                  THEN [d EXCEPT !.deps = JObj(MergeList(d.deps.map, ai_deps))]
                                  ELSE d)]

update_package_json_ai(f) ==
    LET r == ReadDependencies(f)
        d == IndexMutDeps(f.doc)
    IN  IF r.status # "ok" THEN [res |-> r, pkg |-> f]
        ELSE [res |-> Ok,
              pkg |-> WritePretty([d EXCEPT !.deps = JObj(MergeList(d.deps.map, ai_deps))])]

\* update_package_json_ui writing a fresh manifest that holds the merged
\* dependencies and nothing else
update_package_json_ui_fresh(f) ==
    LET r == ReadDependencies(f)
        d == IndexMutDeps(f.doc)
    IN  IF r.status # "ok" THEN [res |-> r, pkg |-> f]
        ELSE [res |-> Ok,
              pkg |-> WritePretty(Doc("obj", JObj(MergeList(d.deps.map, ui_deps)),
                                      JMissing, ""))]

update_package_json_ui(f) ==
    LET r == ReadDependencies(f)
        d == IndexMutDeps(f.doc)
    IN  IF r.status # "ok" THEN [res |-> r, pkg |-> f]
        ELSE [res |-> Ok,
              pkg |-> WritePretty([d EXCEPT !.deps = JObj(MergeList(d.deps.map, ui_deps))])]

\* the devDependencies half of update_package_json_cmd:
\* if let Some(dev_deps) = pkg["devDependencies"].as_object_mut() { loop }
CmdDevDependencies(d) ==
    LET e == IndexMutDev(d)
    IN  IF as_object_mut(e.dev)
        THEN [e EXCEPT !.dev = JObj(MergeList(e.dev.map, cmd_dev_deps))]
        ELSE e

update_package_json_cmd(f) ==
    LET r == ReadDependencies(f)
        d == IndexMutDeps(f.doc)
    IN  IF r.status # "ok" THEN [res |-> r, pkg |-> f]
        ELSE [res |-> Ok,
              pkg |-> WritePretty(CmdDevDependencies(
                          [d EXCEPT !.deps = JObj(MergeList(d.deps.map, cmd_deps))]))]

(* ------------------------------------------------------------------ *)
(* Message bundles                                                      *)
(* ------------------------------------------------------------------ *)
\* a bundle file: absent, not parseable, or JSON whose root is val; an object
\* root maps a namespace to its nested string-to-string map
AbsentBundle == [st |-> "absent", fmt |-> "raw", val |-> JOther]
InvalidBundle == [st |-> "invalid", fmt |-> "raw", val |-> JOther]
BundleFile(fmt, val) == [st |-> "json", fmt |-> fmt, val |-> val]

\* the text handed to merge_translations as cmd_json, before it is parsed
InvalidJsonText == [st |-> "invalid", val |-> JOther]
JsonText(val) == [st |-> "json", val |-> val]

\* the bundles of the base scaffold; of each namespace the first keys are kept
MESSAGES_EN ==
    JObj([ns \in {"nav", "language"} |->
        IF ns = "nav"
        THEN [k \in {"dashboard", "settings"} |->
                 IF k = "dashboard" THEN "Dashboard" ELSE "Settings"]
        ELSE [k \in {"switchLanguage", "german"} |->
                 IF k = "switchLanguage" THEN "Switch Language" ELSE "German"]])

MESSAGES_DE ==
    JObj([ns \in {"nav", "language"} |->
        IF ns = "nav"
        THEN [k \in {"dashboard", "settings"} |->
                 IF k = "dashboard" THEN "Dashboard" ELSE "Einstellungen"]
        ELSE [k \in {"switchLanguage", "german"} |->
                 IF k = "switchLanguage" THEN "Sprache wechseln" ELSE "Deutsch"]])

\* the cmd bundles: four namespaces, of each the first keys are kept
CmdNamespaces == {"commandIsland", "tables", "docs", "chat"}

CMD_MESSAGES_EN ==
    JsonText(JObj([ns \in CmdNamespaces |->
        CASE ns = "commandIsland" ->
                [k \in {"queryMode", "aiMode"} |->
                    IF k = "queryMode" THEN "Filter" ELSE "AI Assistant"]
          [] ns = "tables" ->
                [k \in {"document", "runAll"} |->
                    IF k = "document" THEN "Document" ELSE "Run All"]
          [] ns = "docs" ->
                [k \in {"selectTemplate", "download"} |->
                    IF k = "download" THEN "Download" ELSE "Select a document template"]
          [] ns = "chat" ->
                [k \in {"title", "send"} |->
                    IF k = "title" THEN "AI Assistant" ELSE "Send"]]))

CMD_MESSAGES_DE ==
    JsonText(JObj([ns \in CmdNamespaces |->
        CASE ns = "commandIsland" ->
                [k \in {"queryMode", "aiMode"} |->
                    IF k = "queryMode" THEN "Filter" ELSE "KI-Assistent"]
          [] ns = "tables" ->
                [k \in {"document", "runAll"} |->
                    IF k = "document" THEN "Dokument" ELSE "Alle ausfuehren"]
          [] ns = "docs" ->
                [k \in {"selectTemplate", "download"} |->
                    IF k = "download" THEN "Herunterladen" ELSE "Dokumentvorlage auswaehlen"]
          [] ns = "chat" ->
                [k \in {"title", "send"} |->
                    IF k = "title" THEN "KI-Assistent" ELSE "Senden"]]))

\* the insert merging below the namespace: the base's sub-keys survive
InsertNamespaceDeep(m, key, value) ==
    IF key \in DOMAIN m
    THEN MapInsert(m, key,
            [k \in (DOMAIN m[key]) \cup (DOMAIN value) |->
                IF k \in DOMAIN value THEN value[k] ELSE m[key][k]])
    ELSE MapInsert(m, key, value)

\* the insert made a toggle: a namespace already holding the value is removed
InsertNamespaceOrRemove(m, key, value) ==
    IF key \in DOMAIN m /\ m[key] = value
    THEN [k \in DOMAIN m \ {key} |-> m[k]]
    ELSE MapInsert(m, key, value)

\* base_obj.insert(key.clone(), value.clone())
InsertNamespace(m, key, value) == MapInsert(m, key, value)

\* for (key, value) in additions_obj { ... }, over the keys still to insert
RECURSIVE InsertAll(_, _, _)
InsertAll(m, additions, keys) ==
    IF keys = {} THEN m
    ELSE LET k == CHOOSE x \in keys : TRUE
         IN  InsertAll(InsertNamespace(m, k, additions[k]), additions, keys \ {k})

\* scaffolding::cmd::merge_translations on the bundle file f
merge_translations(f, cmd_json) ==
    IF f.st = "absent" THEN [res |-> Err(<<"io: cannot read bundle">>), file |-> f]
    ELSE IF f.st = "invalid" THEN [res |-> Err(<<"json: cannot parse bundle">>), file |-> f]
    ELSE IF cmd_json.st = "invalid" THEN [res |-> Err(<<"json: cannot parse cmd_json">>), file |-> f]
    ELSE [res |-> Ok,
          file |-> BundleFile("pretty",
              IF as_object_mut(f.val) /\ cmd_json.val.kind = "obj"
              THEN JObj(InsertAll(f.val.map, cmd_json.val.map, DOMAIN cmd_json.val.map))
              ELSE f.val)]


(* ------------------------------------------------------------------ *)
(* Schema text                                                          *)
(* ------------------------------------------------------------------ *)
NL == "\n"

\* pat occurs in s at position i
IsAt(s, pat, i) ==
    /\ i + Len(pat) <= Len(s) + 1
    /\ \A j \in 1..Len(pat) : s[i + j - 1] = pat[j]

\* str::contains
Contains(s, pat) == \E i \in 1..Len(s) : IsAt(s, pat, i)

\* the first match at or after position i, 0 when there is none
NextMatch(s, pat, i) ==
    LET M == {j \in i..Len(s) : IsAt(s, pat, j)}
    IN  IF M = {} THEN 0 ELSE CHOOSE j \in M : \A k \in M : j <= k

\* str::replacen(pat, to, 1): only the first occurrence is replaced
ReplaceFirst(s, pat, to) ==
    LET j == NextMatch(s, pat, 1)
    IN  IF j = 0 THEN s
        ELSE SubSeq(s, 1, j - 1) \o to \o SubSeq(s, j + Len(pat), Len(s))

\* str::replace: the matches are found left to right, each search starting
\* after the previous match; the text between matches is copied and every
\* match is replaced
RECURSIVE ReplaceFrom(_, _, _, _)
ReplaceFrom(s, pat, to, i) ==
    LET j == NextMatch(s, pat, i)
    IN  IF j = 0 THEN SubSeq(s, i, Len(s))
        ELSE SubSeq(s, i, j - 1) \o to \o ReplaceFrom(s, pat, to, j + Len(pat))

Replace(s, pat, to) == ReplaceFrom(s, pat, to, 1)

\* the (match, replacement) pairs of modify_prisma_schema
GeneratorMatch ==
    <<"generator client {", NL, "  provider = \"prisma-client-js\"", NL, "}">>

GeneratorReplacement ==
    <<"generator client {", NL,
      "  provider        = \"prisma-client-js\"", NL,
      "  previewFeatures = [\"postgresqlExtensions\"]", NL, "}">>

DatasourceMatch ==
    <<"datasource db {", NL, "  provider = \"postgresql\"", NL,
      "  url      = env(\"DATABASE_URL\")", NL, "}">>

DatasourceReplacement ==
    <<"datasource db {", NL, "  provider   = \"postgresql\"", NL,
      "  url        = env(\"DATABASE_URL\")", NL,
      "  extensions = [vector]", NL, "}">>

UserModelMarker == <<"model User {">>

UserTailMatch == <<"  sessions Session[]", NL, "  accounts Account[]", NL, "}">>

\* the back-reference fields put ahead of the two fields instead of after them
UserTailReplacementFieldsFirst ==
    <<"  chatThreads     ChatThread[]", NL,
      "  aiTableSessions AITableSession[]", NL,
      "  aiDocSessions   AIDocSession[]", NL, NL,
      "  sessions Session[]", NL, "  accounts Account[]", NL, "}">>

UserTailReplacement ==
    <<"  sessions Session[]", NL, "  accounts Account[]", NL, NL,
      "  chatThreads     ChatThread[]", NL,
      "  aiTableSessions AITableSession[]", NL,
      "  aiDocSessions   AIDocSession[]", NL, "}">>

\* scaffolding::t3::PRISMA_SCHEMA
PRISMA_SCHEMA == GeneratorMatch \o <<NL, NL>> \o DatasourceMatch \o <<NL>>

\* scaffolding::better_auth::PRISMA_AUTH_MODELS; the field lines of Session,
\* Account and Verification are folded into one token per model
BETTER_AUTH_MODELS ==
    <<NL, "// Better Auth Models", NL, NL,
      "model User {", NL,
      "  id            String    @id @default(cuid())", NL,
      "  email         String    @unique", NL,
      "  updatedAt     DateTime  @updatedAt", NL, NL,
      "  sessions Session[]", NL, "  accounts Account[]", NL, "}", NL, NL,
      "model Session {", NL, "  <better-auth session fields>", NL, "}", NL, NL,
      "model Account {", NL, "  <better-auth account fields>", NL, "}", NL, NL,
      "model Verification {", NL, "  <better-auth verification fields>", NL, "}", NL>>

\* scaffolding::next_auth::PRISMA_AUTH_MODELS, folded the same way
NEXT_AUTH_MODELS ==
    <<NL, "// NextAuth Models", NL, NL,
      "model User {", NL,
      "  id            String    @id @default(cuid())", NL,
      "  email         String?   @unique", NL,
      "  accounts      Account[]", NL, "  sessions      Session[]", NL, "}", NL, NL,
      "model Account {", NL, "  <next-auth account fields>", NL, "}", NL, NL,
      "model Session {", NL, "  <next-auth session fields>", NL, "}", NL, NL,
      "model VerificationToken {", NL, "  <next-auth token fields>", NL, "}", NL>>

\* scaffolding::cmd::CMD_PRISMA_MODELS; the two enums and the six models keep
\* their opening and closing lines and the relation to User
CMD_PRISMA_MODELS ==
    <<NL, "// CommandIsland AI Models", NL, NL,
      "enum ProcessingStatus {", NL, "  <values>", NL, "}", NL, NL,
      "enum ChunkType {", NL, "  <values>", NL, "}", NL, NL,
      "model ChatThread {", NL,
      "  user         User         @relation(fields: [userId], references: [id], onDelete: Cascade)", NL,
      "}", NL, NL,
      "model ChatMessage {", NL, "  <fields>", NL, "}", NL, NL,
      "model ChatAttachment {", NL, "  <fields>", NL, "}", NL, NL,
      "model ChatAttachmentChunk {", NL, "  <fields>", NL, "}", NL, NL,
      "model AITableSession {", NL,
      "  user         User       @relation(fields: [userId], references: [id], onDelete: Cascade)", NL,
      "}", NL, NL,
      "model AIDocSession {", NL,
      "  user         User       @relation(fields: [userId], references: [id], onDelete: Cascade)", NL,
      "}", NL>>

\* prisma/schema.prisma: absent or a text
AbsentSchema == [st |-> "absent", text |-> <<>>]
SchemaText(t) == [st |-> "text", text |-> t]

\* the third replacement of modify_prisma_schema without its guard
UserBackReferencesUnguarded(content) ==
    Replace(content, UserTailMatch, UserTailReplacement)

\* if content.contains("model User {") { content = content.replace(tail, ..) }
UserBackReferences(content) ==
    IF Contains(content, UserModelMarker)
    THEN Replace(content, UserTailMatch, UserTailReplacement)
    ELSE content

\* push_str made conditional on the block being absent from the text
PushStrOnce(content, block) ==
    IF Contains(content, block) THEN content ELSE content \o block

\* String::push_str
PushStr(content, block) == content \o block

\* the generator replacement done with replacen(.., 1)
PatchGeneratorFirst(content) ==
    ReplaceFirst(content, GeneratorMatch, GeneratorReplacement)

\* content.replace(generator block, generator block with previewFeatures)
PatchGenerator(content) == Replace(content, GeneratorMatch, GeneratorReplacement)

\* content.replace(datasource block, datasource block with extensions)
PatchDatasource(content) == Replace(content, DatasourceMatch, DatasourceReplacement)

\* modify_prisma_schema made to fail when the generator block is not found
modify_prisma_schema_strict(s) ==
    IF s.st = "absent" THEN [res |-> Err(<<"io: cannot read prisma/schema.prisma">>), schema |-> s]
    ELSE IF ~Contains(s.text, GeneratorMatch)
    THEN [res |-> Err(<<"generator block not found">>), schema |-> s]
    ELSE [res |-> Ok,
          schema |-> SchemaText(
              PushStr(UserBackReferences(PatchDatasource(PatchGenerator(s.text))),
                      CMD_PRISMA_MODELS))]

\* scaffolding::cmd::modify_prisma_schema on the schema file s
modify_prisma_schema(s) ==
    IF s.st = "absent" THEN [res |-> Err(<<"io: cannot read prisma/schema.prisma">>), schema |-> s]
    ELSE [res |-> Ok,
          schema |-> SchemaText(
              PushStr(UserBackReferences(PatchDatasource(PatchGenerator(s.text))),
                      CMD_PRISMA_MODELS))]

\* scaffolding::better_auth::append_to_prisma_schema
better_auth_append_to_prisma_schema(s) ==
    IF s.st = "absent" THEN [res |-> Err(<<"io: cannot read prisma/schema.prisma">>), schema |-> s]
    ELSE [res |-> Ok, schema |-> SchemaText(PushStr(s.text, BETTER_AUTH_MODELS))]

\* scaffolding::next_auth::append_to_prisma_schema
next_auth_append_to_prisma_schema(s) ==
    IF s.st = "absent" THEN [res |-> Err(<<"io: cannot read prisma/schema.prisma">>), schema |-> s]
    ELSE [res |-> Ok, schema |-> SchemaText(PushStr(s.text, NEXT_AUTH_MODELS))]


(* ------------------------------------------------------------------ *)
(* package.json at creation time                                        *)
(* ------------------------------------------------------------------ *)
\* the "dependencies" object of the json! literal of finalize_package_json
BaseDependencies ==
    << <<"next", "^16.1.4">>, <<"react", "^19.2.3">>, <<"react-dom", "^19.2.3">>,
       <<"@prisma/client", "^7.3.0">>, <<"@prisma/adapter-pg", "^7.3.0">>,
       <<"@trpc/client", "^11.8.1">>, <<"@trpc/server", "^11.8.1">>,
       <<"@trpc/react-query", "^11.8.1">>, <<"@tanstack/react-query", "^5.90.20">>,
       <<"@t3-oss/env-nextjs", "^0.13.10">>, <<"next-themes", "^0.4.6">>,
       <<"next-intl", "^4.7.0">>, <<"superjson", "^2.2.1">>, <<"zod", "^4.3.6">>,
       <<"server-only", "^0.0.1">>, <<"lucide-react", "^0.563.0">>,
       <<"clsx", "^2.1.1">>, <<"tailwind-merge", "^3.4.0">> >>

\* the "devDependencies" object of the same literal
BaseDevDependencies ==
    << <<"typescript", "^5.9.3">>, <<"@types/node", "^25.0.10">>,
       <<"@types/react", "^19.2.9">>, <<"@types/react-dom", "^19.2.3">>,
       <<"prisma", "^7.3.0">>, <<"tailwindcss", "^4.1.18">>,
       <<"@tailwindcss/postcss", "^4.1.18">>, <<"postcss", "^8.5.3">>,
       <<"dotenv", "^16.5.0">>, <<"@biomejs/biome", "^1.9.0">>,
       <<"vitest", "4.0.17">>, <<"@vitejs/plugin-react", "5.1.2">>,
       <<"@testing-library/react", "^16.3.0">>, <<"@testing-library/dom", "^10.4.0">>,
       <<"@testing-library/jest-dom", "^6.6.3">>, <<"jsdom", "27.4.0">> >>

AuthDependencies(auth_provider) ==
    IF auth_provider = "BetterAuth"
    THEN << <<"better-auth", "^1.0.0">> >>
    ELSE << <<"next-auth", "4.24.13">>, <<"@auth/prisma-adapter", "^2.7.2">> >>

\* the creation-time AI list without the database driver
CreateAiDependenciesWithoutPg ==
    << <<"@langchain/anthropic", "^1.3.12">>, <<"@langchain/core", "^1.1.17">>,
       <<"@langchain/openai", "^1.2.3">>, <<"langchain", "^0.3.20">>,
       <<"winston", "^3.17.0">> >>

CreateAiDependencies ==
    << <<"@langchain/anthropic", "^1.3.12">>, <<"@langchain/core", "^1.1.17">>,
       <<"@langchain/openai", "^1.2.3">>, <<"langchain", "^0.3.20">>,
       <<"winston", "^3.17.0">>, <<"pg", "^8.16.0">> >>

CreateUiDependencies ==
    << <<"@floating-ui/react", "^0.27.16">>, <<"class-variance-authority", "^0.7.1">>,
       <<"clsx", "^2.1.1">>, <<"date-fns", "^4.1.0">>, <<"lucide-react", "^0.562.0">>,
       <<"react-day-picker", "^9.13.0">>, <<"recharts", "^2.15.4">>,
       <<"sonner", "^2.0.7">>, <<"tailwind-merge", "^3.4.0">>,
       <<"next-themes", "^0.4.6">> >>

\* the document finalize_package_json serializes: every insert overwrites
finalize_package_json(include_ai, include_ui, auth_provider) ==
    LET d0 == MapOfList(EmptyMap, BaseDependencies)
        d1 == MapOfList(d0, AuthDependencies(auth_provider))
        d2 == IF include_ai THEN MapOfList(d1, CreateAiDependencies) ELSE d1
        d3 == IF include_ui THEN MapOfList(d2, CreateUiDependencies) ELSE d2
    IN  WritePretty(Doc("obj", JObj(d3),
                        JObj(MapOfList(EmptyMap, BaseDevDependencies)),
                        "name, version, private, type, scripts"))

(* ------------------------------------------------------------------ *)
(* The working directory and the scaffolding routines                   *)
(* ------------------------------------------------------------------ *)
\* the plain files the routines write; a copied template tree is one entry
CmdPaths ==
    {"src/components/<cmd/components/>", "src/lib/<cmd/lib/>", "src/server/<cmd/server/>",
     "src/server/api/trpc.ts", "src/server/api/root.ts",
     "src/app/_components/CommandIslandLayout.tsx", "src/app/layout.tsx",
     "src/components/layout/PageGuide.tsx", ".claude/skills/commandisland.md"}

AiPaths ==
    {"src/components/ai/core/<ai/core>", "src/components/ai/index.ts",
     ".claude/skills/ai.md", "src/components/ai/agents/example.ts"}

UiPaths ==
    {"src/components/ui/<ui/>", "src/app/globals.css",
     "src/components/ui/index.ts", "src/utils/use-mobile.ts"}

RestatePaths == {"restate/<restate/>", "restate/README.md"}

Paths == CmdPaths \cup AiPaths \cup UiPaths \cup RestatePaths \cup {"src/styles/globals.css"}

\* the files directly inside src/app or below it: the directory exists when
\* one of them does
AppDirPaths ==
    {"src/app/_components/CommandIslandLayout.tsx", "src/app/layout.tsx",
     "src/app/globals.css"}

NoFiles == [p \in Paths |-> "absent"]

\* what t3::scaffold leaves of the tracked paths
CreatedFiles ==
    [p \in Paths |->
        CASE p = "src/app/layout.tsx" -> "APP_LAYOUT"
          [] p = "src/styles/globals.css" -> "GLOBALS_CSS"
          [] p = "src/server/api/trpc.ts" -> "TRPC_INIT"
          [] p = "src/server/api/root.ts" -> "TRPC_ROOT"
          [] OTHER -> "absent"]

\* a working directory
FS(p, s, e, d, f) == [pkg |-> p, schema |-> s, en |-> e, de |-> d, files |-> f]

\* utils::fs::write_file and fs::write where the parent exists: create or replace
WriteFile(f, path, content) == [f EXCEPT ![path] = content]

\* embedded::copy_embedded_dir(prefix, dest): the tree is written below dest
copy_embedded_dir(f, path) == [f EXCEPT ![path] = "embedded templates"]

\* scaffolding::ai::scaffold
ai_scaffold(fs) ==
    [res |-> Ok,
     fs |-> [fs EXCEPT !.files =
        WriteFile(WriteFile(WriteFile(
            copy_embedded_dir(fs.files, "src/components/ai/core/<ai/core>"),
            "src/components/ai/index.ts", "AI_INDEX"),
            ".claude/skills/ai.md", "CLAUDE_AI_SKILL"),
            "src/components/ai/agents/example.ts", "EXAMPLE_AGENT")]]

\* scaffolding::ui::update_globals_css: tokio::fs::write creates no parent
update_globals_css(f) ==
    IF \A p \in AppDirPaths : f[p] = "absent"
    THEN [res |-> Err(<<"io: cannot write src/app/globals.css">>), files |-> f]
    ELSE [res |-> Ok, files |-> WriteFile(f, "src/app/globals.css", "GLOBALS_CSS_THEMED")]

\* scaffolding::ui::scaffold
ui_scaffold(fs) ==
    LET f1 == copy_embedded_dir(fs.files, "src/components/ui/<ui/>")
        g == update_globals_css(f1)
    IN  IF g.res.status # "ok" THEN [res |-> g.res, fs |-> [fs EXCEPT !.files = f1]]
        ELSE [res |-> Ok,
              fs |-> [fs EXCEPT !.files =
                  WriteFile(WriteFile(g.files,
                      "src/components/ui/index.ts", "UI_INDEX"),
                      "src/utils/use-mobile.ts", "USE_MOBILE_HOOK")]]

\* scaffolding::restate::scaffold
restate_scaffold(fs) ==
    [res |-> Ok,
     fs |-> [fs EXCEPT !.files =
        WriteFile(copy_embedded_dir(fs.files, "restate/<restate/>"),
                  "restate/README.md", "RESTATE_README")]]

\* scaffolding::cmd::scaffold: steps 1 to 9, each `?` returning the first error
cmd_scaffold(fs) ==
    LET f3 == WriteFile(WriteFile(
                  copy_embedded_dir(copy_embedded_dir(copy_embedded_dir(fs.files,
                      "src/components/<cmd/components/>"),
                      "src/lib/<cmd/lib/>"),
                      "src/server/<cmd/server/>"),
                  "src/server/api/trpc.ts", "TRPC_INIT_WITH_AUTH"),
                  "src/server/api/root.ts", "TRPC_ROOT_WITH_CMD")
        s4 == modify_prisma_schema(fs.schema)
        e5 == merge_translations(fs.en, CMD_MESSAGES_EN)
        d5 == merge_translations(fs.de, CMD_MESSAGES_DE)
        f9 == WriteFile(WriteFile(WriteFile(WriteFile(f3,
                  "src/app/_components/CommandIslandLayout.tsx", "CMD_LAYOUT_WRAPPER"),
                  "src/app/layout.tsx", "APP_LAYOUT_WITH_CMD"),
                  "src/components/layout/PageGuide.tsx", "PAGE_GUIDE_STUB"),
                  ".claude/skills/commandisland.md", "CLAUDE_CMD_SKILL")
    IN  IF s4.res.status # "ok"
        THEN [res |-> s4.res, fs |-> [fs EXCEPT !.files = f3]]
        ELSE IF e5.res.status # "ok"
        THEN [res |-> e5.res, fs |-> [fs EXCEPT !.files = f3, !.schema = s4.schema]]
        ELSE IF d5.res.status # "ok"
        THEN [res |-> d5.res,
              fs |-> [fs EXCEPT !.files = f3, !.schema = s4.schema, !.en = e5.file]]
        ELSE [res |-> Ok,
              fs |-> [fs EXCEPT !.files = f9, !.schema = s4.schema,
                                !.en = e5.file, !.de = d5.file]]


(* ------------------------------------------------------------------ *)
(* The add workflow                                                     *)
(* ------------------------------------------------------------------ *)
\* anyhow::bail!("Unknown extension: {}. Use 'ai', 'ui', 'restate', or 'cmd'.")
UnknownExtensionMessage(extension) ==
    <<"Unknown extension: ", extension, ". Use '", "ai", "', '", "ui", "', '",
      "restate", "', or '", "cmd", "'.">>

\* a scaffolding routine followed, when it succeeded, by the manifest update
ScaffoldThenUpdate(s, u, names) ==
    IF s.res.status # "ok"
    THEN [res |-> s.res, fs |-> s.fs, ran |-> <<names[1]>>]
    ELSE [res |-> u.res, fs |-> [s.fs EXCEPT !.pkg = u.pkg], ran |-> names]

\* the match of add::execute with the `_` arm succeeding instead of bailing
add_dispatch_lenient(fs, extension) ==
    CASE extension = "ai" ->
            LET s == ai_scaffold(fs)
            IN  ScaffoldThenUpdate(s, update_package_json_ai(s.fs.pkg),
                    <<"ai::scaffold", "update_package_json_ai">>)
      [] extension = "ui" ->
            LET s == ui_scaffold(fs)
            IN  ScaffoldThenUpdate(s, update_package_json_ui(s.fs.pkg),
                    <<"ui::scaffold", "update_package_json_ui">>)
      [] extension = "cmd" ->
            LET s == cmd_scaffold(fs)
            IN  ScaffoldThenUpdate(s, update_package_json_cmd(s.fs.pkg),
                    <<"cmd::scaffold", "update_package_json_cmd">>)
      [] OTHER ->
            LET s == restate_scaffold(fs)
            IN  [res |-> s.res, fs |-> s.fs, ran |-> <<"restate::scaffold">>]

\* match extension { "ai" => .., "ui" => .., "restate" => .., "cmd" => .., _ => bail }
add_dispatch(fs, extension) ==
    CASE extension = "ai" ->
            LET s == ai_scaffold(fs)
            IN  ScaffoldThenUpdate(s, update_package_json_ai(s.fs.pkg),
                    <<"ai::scaffold", "update_package_json_ai">>)
      [] extension = "ui" ->
            LET s == ui_scaffold(fs)
            IN  ScaffoldThenUpdate(s, update_package_json_ui(s.fs.pkg),
                    <<"ui::scaffold", "update_package_json_ui">>)
      [] extension = "restate" ->
            LET s == restate_scaffold(fs)
            IN  [res |-> s.res, fs |-> s.fs, ran |-> <<"restate::scaffold">>]
      [] extension = "cmd" ->
            LET s == cmd_scaffold(fs)
            IN  ScaffoldThenUpdate(s, update_package_json_cmd(s.fs.pkg),
                    <<"cmd::scaffold", "update_package_json_cmd">>)
      [] OTHER ->
            [res |-> Err(UnknownExtensionMessage(extension)), fs |-> fs, ran |-> <<>>]

\* add::execute without the package.json check
add_execute_unchecked(fs, extension) == add_dispatch(fs, extension)

\* commands::add::execute
add_execute(fs, extension) ==
    IF fs.pkg.st = "absent"
    THEN [res |-> Err(<<"No package.json found. Run this command from the root of your project.">>),
          fs |-> fs, ran |-> <<>>]
    ELSE add_dispatch(fs, extension)


(* ------------------------------------------------------------------ *)
(* A run, step by step                                                  *)
(*                                                                      *)
(* Every routine is a sequence of I/O steps joined by `?`.  A run takes *)
(* them in order; the step numbered `fault` (0: none) fails with an I/O *)
(* error, leaving its target untouched or, when `torn`, truncated.      *)
(* ------------------------------------------------------------------ *)
\* the directory a run works in: whether it exists and whether it holds entries
Dir(exists, entries) == [exists |-> exists, entries |-> entries]
ProjectDir == Dir(TRUE, TRUE)

\* the working directory with the directory itself
RS(fs, t) == [fs |-> fs, target |-> t]

\* the arguments main hands to create::execute
CreateArgs(name, ai, ui, restate, init_git, auth) ==
    [name |-> name, ai |-> ai, ui |-> ui, restate |-> restate, init_git |-> init_git,
     auth |-> auth]

NoArgs == CreateArgs(".", FALSE, FALSE, FALSE, FALSE, "BetterAuth")

\* t3::scaffold, in the order of its write_file calls
T3Steps ==
    <<"t3: write config files, src/env.js",
      "t3: write src/app/layout.tsx",
      "t3: write src/app/page.tsx",
      "t3: write src/styles/globals.css",
      "t3: write app components, dashboard page",
      "t3: write src/server/api/trpc.ts",
      "t3: write src/server/api/root.ts",
      "t3: write trpc route and client",
      "t3: write prisma/schema.prisma",
      "t3: write prisma.config.ts, db.ts, utils.ts, i18n",
      "t3: write messages/en.json",
      "t3: write messages/de.json",
      "t3: copy docker, docs">>

BetterAuthSteps ==
    <<"better_auth: write auth.ts, route.ts, auth-client.ts",
      "better_auth: append_to_prisma_schema">>

NextAuthSteps ==
    <<"next_auth: write auth.ts, route.ts, auth-client.ts, session-provider.tsx",
      "next_auth: append_to_prisma_schema">>

\* step 3 of create::execute for the provider main passes on
AuthSteps(auth_provider) ==
    IF auth_provider = "BetterAuth" THEN BetterAuthSteps ELSE NextAuthSteps

AiSteps ==
    <<"ai: copy ai/core", "ai: write index.ts", "ai: write ai.md", "ai: write example.ts">>

UiSteps ==
    <<"ui: copy ui/", "ui: update_globals_css", "ui: write index.ts",
      "ui: write use-mobile.ts">>

RestateSteps == <<"restate: copy restate/", "restate: write README.md">>

\* cmd::scaffold merging the message bundles ahead of the schema patch
CmdStepsBundlesFirst ==
    <<"cmd: copy cmd/components/", "cmd: copy cmd/lib/", "cmd: copy cmd/server/",
      "cmd: write trpc.ts", "cmd: write root.ts",
      "cmd: merge_translations en", "cmd: merge_translations de",
      "cmd: modify_prisma_schema",
      "cmd: write CommandIslandLayout.tsx", "cmd: write layout.tsx",
      "cmd: write PageGuide.tsx", "cmd: write commandisland.md">>

CmdSteps ==
    <<"cmd: copy cmd/components/", "cmd: copy cmd/lib/", "cmd: copy cmd/server/",
      "cmd: write trpc.ts", "cmd: write root.ts",
      "cmd: modify_prisma_schema",
      "cmd: merge_translations en", "cmd: merge_translations de",
      "cmd: write CommandIslandLayout.tsx", "cmd: write layout.tsx",
      "cmd: write PageGuide.tsx", "cmd: write commandisland.md">>

FinalizeSteps ==
    <<"finalize_package_json: write package.json",
      "finalize_package_json: write .env.example">>

\* the plain file a step writes, with what it writes
PlainWrites ==
    ("t3: write src/app/layout.tsx" :> <<"src/app/layout.tsx", "APP_LAYOUT">>) @@
    ("t3: write src/styles/globals.css" :> <<"src/styles/globals.css", "GLOBALS_CSS">>) @@
    ("t3: write src/server/api/trpc.ts" :> <<"src/server/api/trpc.ts", "TRPC_INIT">>) @@
    ("t3: write src/server/api/root.ts" :> <<"src/server/api/root.ts", "TRPC_ROOT">>) @@
    ("ai: copy ai/core" :> <<"src/components/ai/core/<ai/core>", "embedded templates">>) @@
    ("ai: write index.ts" :> <<"src/components/ai/index.ts", "AI_INDEX">>) @@
    ("ai: write ai.md" :> <<".claude/skills/ai.md", "CLAUDE_AI_SKILL">>) @@
    ("ai: write example.ts" :> <<"src/components/ai/agents/example.ts", "EXAMPLE_AGENT">>) @@
    ("ui: copy ui/" :> <<"src/components/ui/<ui/>", "embedded templates">>) @@
    ("ui: write index.ts" :> <<"src/components/ui/index.ts", "UI_INDEX">>) @@
    ("ui: write use-mobile.ts" :> <<"src/utils/use-mobile.ts", "USE_MOBILE_HOOK">>) @@
    ("restate: copy restate/" :> <<"restate/<restate/>", "embedded templates">>) @@
    ("restate: write README.md" :> <<"restate/README.md", "RESTATE_README">>) @@
    ("cmd: copy cmd/components/" :> <<"src/components/<cmd/components/>", "embedded templates">>) @@
    ("cmd: copy cmd/lib/" :> <<"src/lib/<cmd/lib/>", "embedded templates">>) @@
    ("cmd: copy cmd/server/" :> <<"src/server/<cmd/server/>", "embedded templates">>) @@
    ("cmd: write trpc.ts" :> <<"src/server/api/trpc.ts", "TRPC_INIT_WITH_AUTH">>) @@
    ("cmd: write root.ts" :> <<"src/server/api/root.ts", "TRPC_ROOT_WITH_CMD">>) @@
    ("cmd: write CommandIslandLayout.tsx" :>
        <<"src/app/_components/CommandIslandLayout.tsx", "CMD_LAYOUT_WRAPPER">>) @@
    ("cmd: write layout.tsx" :> <<"src/app/layout.tsx", "APP_LAYOUT_WITH_CMD">>) @@
    ("cmd: write PageGuide.tsx" :> <<"src/components/layout/PageGuide.tsx", "PAGE_GUIDE_STUB">>) @@
    ("cmd: write commandisland.md" :> <<".claude/skills/commandisland.md", "CLAUDE_CMD_SKILL">>)

\* the steps that write files the model does not follow
UntrackedSteps ==
    {"t3: write config files, src/env.js", "t3: write src/app/page.tsx",
     "t3: write app components, dashboard page", "t3: write trpc route and client",
     "t3: write prisma.config.ts, db.ts, utils.ts, i18n", "t3: copy docker, docs",
     "better_auth: write auth.ts, route.ts, auth-client.ts",
     "next_auth: write auth.ts, route.ts, auth-client.ts, session-provider.tsx",
     "fs::init_git", "finalize_package_json: write .env.example"}

\* the artifact a step writes: a path of Paths or one of the structured files
Writes(step) ==
    CASE step \in DOMAIN PlainWrites -> PlainWrites[step][1]
      [] step = "ui: update_globals_css" -> "src/app/globals.css"
      [] step \in {"t3: write prisma/schema.prisma", "better_auth: append_to_prisma_schema",
                   "next_auth: append_to_prisma_schema", "cmd: modify_prisma_schema"} ->
            "prisma/schema.prisma"
      [] step \in {"t3: write messages/en.json", "cmd: merge_translations en"} ->
            "messages/en.json"
      [] step \in {"t3: write messages/de.json", "cmd: merge_translations de"} ->
            "messages/de.json"
      [] step \in {"finalize_package_json: write package.json", "update_package_json_ai",
                   "update_package_json_ui", "update_package_json_cmd"} -> "package.json"
      [] step = "fs::create_project_dir" -> "<directory>"
      [] OTHER -> "<untracked>"

\* one step run to its end
ApplyStep(rs, step, args) ==
    LET fs == rs.fs
        done(f) == [res |-> Ok, rs |-> [rs EXCEPT !.fs = f]]
        from(r, f) == [res |-> r.res, rs |-> [rs EXCEPT !.fs = f]]
    IN  CASE step \in DOMAIN PlainWrites ->
                done([fs EXCEPT !.files =
                        WriteFile(@, PlainWrites[step][1], PlainWrites[step][2])])
          [] step \in UntrackedSteps -> done(fs)
          [] step = "fs::create_project_dir" ->
                [res |-> Ok, rs |-> [rs EXCEPT !.target = Dir(TRUE, TRUE)]]
          [] step = "t3: write prisma/schema.prisma" ->
                done([fs EXCEPT !.schema = SchemaText(PRISMA_SCHEMA)])
          [] step = "t3: write messages/en.json" ->
                done([fs EXCEPT !.en = BundleFile("raw", MESSAGES_EN)])
          [] step = "t3: write messages/de.json" ->
                done([fs EXCEPT !.de = BundleFile("raw", MESSAGES_DE)])
          [] step = "better_auth: append_to_prisma_schema" ->
                LET r == better_auth_append_to_prisma_schema(fs.schema)
                IN  from(r, [fs EXCEPT !.schema = r.schema])
          [] step = "next_auth: append_to_prisma_schema" ->
                LET r == next_auth_append_to_prisma_schema(fs.schema)
                IN  from(r, [fs EXCEPT !.schema = r.schema])
          [] step = "ui: update_globals_css" ->
                LET r == update_globals_css(fs.files)
                IN  from(r, [fs EXCEPT !.files = r.files])
          [] step = "cmd: modify_prisma_schema" ->
                LET r == modify_prisma_schema(fs.schema)
                IN  from(r, [fs EXCEPT !.schema = r.schema])
          [] step = "cmd: merge_translations en" ->
                LET r == merge_translations(fs.en, CMD_MESSAGES_EN)
                IN  from(r, [fs EXCEPT !.en = r.file])
          [] step = "cmd: merge_translations de" ->
                LET r == merge_translations(fs.de, CMD_MESSAGES_DE)
                IN  from(r, [fs EXCEPT !.de = r.file])
          [] step = "update_package_json_ai" ->
                LET r == update_package_json_ai(fs.pkg)
                IN  from(r, [fs EXCEPT !.pkg = r.pkg])
          [] step = "update_package_json_ui" ->
                LET r == update_package_json_ui(fs.pkg)
                IN  from(r, [fs EXCEPT !.pkg = r.pkg])
          [] step = "update_package_json_cmd" ->
                LET r == update_package_json_cmd(fs.pkg)
                IN  from(r, [fs EXCEPT !.pkg = r.pkg])
          [] step = "finalize_package_json: write package.json" ->
                done([fs EXCEPT !.pkg = finalize_package_json(args.ai, args.ui, args.auth)])

\* a write cut short: fs::write has truncated the file and written nothing, a
\* directory has been made without all that belongs in it
Torn(rs, step) ==
    LET a == Writes(step)
    IN  CASE a = "src/app/globals.css" /\ \A q \in AppDirPaths : rs.fs.files[q] = "absent" -> rs
          [] a \in Paths -> [rs EXCEPT !.fs.files[a] = "truncated"]
          [] a = "prisma/schema.prisma" -> [rs EXCEPT !.fs.schema = SchemaText(<<>>)]
          [] a = "messages/en.json" -> [rs EXCEPT !.fs.en = InvalidBundle]
          [] a = "messages/de.json" -> [rs EXCEPT !.fs.de = InvalidBundle]
          [] a = "package.json" -> [rs EXCEPT !.fs.pkg = InvalidFile]
          [] a = "<directory>" -> [rs EXCEPT !.target = Dir(TRUE, TRUE)]
          [] OTHER -> rs

\* the error of an I/O call that failed
IoError(step) == Err(<<"io error", step>>)

\* step number i of the run: the failing I/O call, or the step run to its end
\* (the write is cut short only where the step gets as far as writing)
RunStep(rs, steps, i, fault, torn, args) ==
    LET whole == ApplyStep(rs, steps[i], args)
        r == IF i = fault
             THEN [res |-> IoError(steps[i]),
                   rs |-> IF torn /\ whole.res.status = "ok" THEN Torn(rs, steps[i]) ELSE rs]
             ELSE whole
    IN  [res |-> r.res, rs |-> r.rs, last |-> i]

RECURSIVE RunStepsOn(_, _, _, _, _, _, _)
\* the steps run on after one has failed; the first error is returned at the end
RunStepsOn(rs, steps, lo, hi, fault, torn, args) ==
    IF lo > hi THEN [res |-> Ok, rs |-> rs, last |-> hi]
    ELSE IF lo = hi THEN RunStep(rs, steps, lo, fault, torn, args)
    ELSE LET mid == (lo + hi) \div 2
             r1 == RunStepsOn(rs, steps, lo, mid, fault, torn, args)
             r2 == RunStepsOn(r1.rs, steps, mid + 1, hi, fault, torn, args)
         IN  IF r1.res.status # "ok" THEN [r2 EXCEPT !.res = r1.res] ELSE r2

RECURSIVE RunSteps(_, _, _, _, _, _, _)
\* step()?; step()?; ...; Ok(()) for the steps lo..hi: the first error ends the
\* run (the range is halved, the first half run before the second)
RunSteps(rs, steps, lo, hi, fault, torn, args) ==
    IF lo > hi THEN [res |-> Ok, rs |-> rs, last |-> hi]
    ELSE IF lo = hi THEN RunStep(rs, steps, lo, fault, torn, args)
    ELSE LET mid == (lo + hi) \div 2
             r1 == RunSteps(rs, steps, lo, mid, fault, torn, args)
         IN  IF r1.res.status # "ok" THEN r1
             ELSE RunSteps(r1.rs, steps, mid + 1, hi, fault, torn, args)

\* a run of all the steps, with the steps it started
Run(rs, steps, fault, torn, args) ==
    LET r == RunSteps(rs, steps, 1, Len(steps), fault, torn, args)
    IN  [res |-> r.res, rs |-> r.rs, done |-> SubSeq(steps, 1, r.last)]

\* the arm of add::execute for a valid identifier
AddSteps(extension) ==
    CASE extension = "ai" -> AiSteps \o <<"update_package_json_ai">>
      [] extension = "ui" -> UiSteps \o <<"update_package_json_ui">>
      [] extension = "restate" -> RestateSteps
      [] extension = "cmd" -> CmdSteps \o <<"update_package_json_cmd">>

\* add::execute with an I/O failure at step `fault`
add_run(rs, extension, fault, torn) ==
    IF rs.fs.pkg.st = "absent" \/ extension \notin {"ai", "ui", "restate", "cmd"}
    THEN [res |-> add_execute(rs.fs, extension).res, rs |-> rs, done |-> <<>>]
    ELSE Run(rs, AddSteps(extension), fault, torn, NoArgs)

\* steps 1 to 8 of create::execute
\* create::execute writing package.json right after the directories
CreateStepsFinalizeFirst(args) ==
    <<"fs::create_project_dir">> \o FinalizeSteps \o T3Steps \o AuthSteps(args.auth)
        \o (IF args.ai THEN AiSteps ELSE <<>>)
        \o (IF args.ui THEN UiSteps ELSE <<>>)
        \o (IF args.restate THEN RestateSteps ELSE <<>>)
        \o (IF args.init_git THEN <<"fs::init_git">> ELSE <<>>)

\* create::execute with the auth provider scaffolded ahead of the base
CreateStepsAuthFirst(args) ==
    <<"fs::create_project_dir">> \o AuthSteps(args.auth) \o T3Steps
        \o (IF args.ai THEN AiSteps ELSE <<>>)
        \o (IF args.ui THEN UiSteps ELSE <<>>)
        \o (IF args.restate THEN RestateSteps ELSE <<>>)
        \o (IF args.init_git THEN <<"fs::init_git">> ELSE <<>>)
        \o FinalizeSteps

CreateSteps(args) ==
    <<"fs::create_project_dir">> \o T3Steps \o AuthSteps(args.auth)
        \o (IF args.ai THEN AiSteps ELSE <<>>)
        \o (IF args.ui THEN UiSteps ELSE <<>>)
        \o (IF args.restate THEN RestateSteps ELSE <<>>)
        \o (IF args.init_git THEN <<"fs::init_git">> ELSE <<>>)
        \o FinalizeSteps

\* bail!("Directory '{}' already exists and is not empty", name)
NotEmptyMessage(name) == <<"Directory '", name, "' already exists and is not empty">>

\* create::execute without the test of the target directory
create_execute_unchecked(rs, args, fault, torn) ==
    Run(rs, CreateSteps(args), fault, torn, args)

\* commands::create::execute with an I/O failure at step `fault`
create_execute(rs, args, fault, torn) ==
    IF rs.target.exists /\ args.name # "." /\ rs.target.entries
    THEN [res |-> Err(NotEmptyMessage(args.name)), rs |-> rs, done |-> <<>>]
    ELSE Run(rs, CreateSteps(args), fault, torn, args)


(* ------------------------------------------------------------------ *)
(* Remote templates                                                     *)
(*                                                                      *)
(* A remote path is a sequence of pieces, "agents/core" and "ui" being  *)
(* one piece each, so that starts_with is a prefix test.                *)
(* ------------------------------------------------------------------ *)
AgentsCoreFiles ==
    <<"providers/index.ts", "logging/index.ts", "chunking/index.ts",
      "embedding/index.ts", "index.ts">>

UiFiles ==
    <<"globals.css", "accordion.tsx", "alert.tsx", "alert-dialog.tsx", "aspect-ratio.tsx",
      "badge.tsx", "breadcrumb.tsx", "button.tsx", "calendar.tsx", "card.tsx", "chart.tsx",
      "checkbox.tsx", "collapsible.tsx", "context-menu.tsx", "dialog.tsx",
      "dropdown-menu.tsx", "empty.tsx", "hover-card.tsx", "input.tsx", "kbd.tsx",
      "label.tsx", "pagination.tsx", "popover.tsx", "progress.tsx", "radio-group.tsx",
      "select.tsx", "separator.tsx", "sheet.tsx", "skeleton.tsx", "slider.tsx", "slot.tsx",
      "sonner.tsx", "spinner.tsx", "switch.tsx", "table.tsx", "tabs.tsx", "textarea.tsx",
      "toggle.tsx", "toggle-group.tsx", "tooltip.tsx">>

\* let files = if remote_path.starts_with("agents/core") {..} else if remote_path == "ui" {..} else { vec![] }
KnownFiles(remote_path) ==
    IF Len(remote_path) >= 1 /\ remote_path[1] = "agents/core" THEN AgentsCoreFiles
    ELSE IF remote_path = <<"ui">> THEN UiFiles
    ELSE <<>>

\* templates::remote::fetch_known_files: every listed file is requested; a
\* success response is written below local_path, anything else is skipped
fetch_known_files(remote_path, responses, local_ok, local) ==
    IF ~local_ok THEN [res |-> Err(<<"io: cannot create the local directory">>), local |-> local]
    ELSE [res |-> Ok,
          local |-> local \cup
              {KnownFiles(remote_path)[i] :
                  i \in {j \in DOMAIN KnownFiles(remote_path) :
                            responses[KnownFiles(remote_path)[j]] = "200"}}]

(* ------------------------------------------------------------------ *)
(* Embedded templates                                                   *)
(*                                                                      *)
(* A path is a sequence of pieces ("docker", "/", "Dockerfile"), so     *)
(* that starts_with and strip_prefix work on it as on characters. A     *)
(* directory is a set of <<path, content>> pairs, one per path.         *)
(* ------------------------------------------------------------------ *)
\* the files compiled in from templates/, in the order of Templates::iter()
Templates ==
    << <<"ai", "/", "core", "/", "index.ts">>,
       <<"ai", "/", "core", "/", "providers", "/", "index.ts">>,
       <<"docker", "-compose.yml">>,
       <<"docker", "/", "Dockerfile">>,
       <<"docs", "/", "README.md">>,
       <<"ui", "/", "button.tsx">>,
       <<"ui", "/", "globals.css">> >>

\* embedded::get_template: the content of the embedded file
get_template(path) == <<"content of">> \o path

\* a variant that matches whole path components only
starts_with_component(path, prefix) ==
    /\ Len(prefix) <= Len(path) /\ SubSeq(path, 1, Len(prefix)) = prefix
    /\ \/ Len(prefix) = Len(path)
       \/ prefix = <<>>
       \/ prefix[Len(prefix)] = "/"
       \/ path[Len(prefix) + 1] = "/"

\* str::starts_with
starts_with(path, prefix) ==
    Len(prefix) <= Len(path) /\ SubSeq(path, 1, Len(prefix)) = prefix

\* embedded::list_templates
list_templates(prefix) == SelectSeq(Templates, LAMBDA p : starts_with(p, prefix))

\* str::trim_start_matches('/')
RECURSIVE trim_start_matches(_)
trim_start_matches(path) ==
    IF path # <<>> /\ Head(path) = "/" THEN trim_start_matches(Tail(path)) ELSE path

\* file_path.strip_prefix(embedded_prefix).unwrap_or(&file_path).trim_start_matches('/')
relative_path(file_path, embedded_prefix) ==
    trim_start_matches(
        IF starts_with(file_path, embedded_prefix)
        THEN SubSeq(file_path, Len(embedded_prefix) + 1, Len(file_path))
        ELSE file_path)

\* Path::join with a relative path
join(dest_path, relative) == dest_path \o <<"/">> \o relative

\* fs::write below dest: the file is created or replaced
WriteAt(dir, path, content) == {e \in dir : e[1] # path} \cup {<<path, content>>}

\* the loop of copy_embedded_dir over files[i..]; the write of the fault-th
\* listed file fails (0: none does), and so does a write to dest_path itself
RECURSIVE CopyFrom(_, _, _, _, _, _)
CopyFrom(listed, i, embedded_prefix, dest_path, fault, dir) ==
    IF i > Len(listed) THEN [res |-> Ok, dir |-> dir]
    ELSE IF i = fault \/ relative_path(listed[i], embedded_prefix) = <<>>
    THEN [res |-> Err(<<"io: cannot write">> \o listed[i]), dir |-> dir]
    ELSE CopyFrom(listed, i + 1, embedded_prefix, dest_path, fault,
                  WriteAt(dir, join(dest_path, relative_path(listed[i], embedded_prefix)),
                          get_template(listed[i])))

\* embedded::copy_embedded_dir, file by file
copy_embedded_files(embedded_prefix, dest_path, fault, dir) ==
    CopyFrom(list_templates(embedded_prefix), 1, embedded_prefix, dest_path, fault, dir)


(* ------------------------------------------------------------------ *)
(* The directories of a project and the auth provider's files           *)
(* ------------------------------------------------------------------ *)
\* the route directory of Better Auth whatever the provider
auth_route_dir_fixed(auth_provider) == <<"src/app/api/auth", "/", "[...all]">>

\* let auth_route_dir = match auth_provider { .. }
auth_route_dir(auth_provider) ==
    IF auth_provider = "BetterAuth"
    THEN <<"src/app/api/auth", "/", "[...all]">>
    ELSE <<"src/app/api/auth", "/", "[...nextauth]">>

\* let dirs = [..]
StandardDirs(auth_provider) ==
    << <<"src/app/api/trpc/[trpc]">>, auth_route_dir(auth_provider), <<"src/server/api">>,
       <<"src/lib">>, <<"src/components">>, <<"prisma">>, <<"public">> >>

\* Path::parent
parent(path) == SubSeq(path, 1, Len(path) - 2)

\* fs::create_dir_all: the directory and the ones above it
create_dir_all(dir, path) ==
    dir \cup {<<SubSeq(path, 1, k), <<"directory">>>> :
                k \in {n \in 1..Len(path) : n = Len(path) \/ path[n + 1] = "/"}}

\* utils::fs::create_project_dir, where creating the fault-th directory of dirs
\* fails (0: none does); made lists the directories that were created
create_project_dir(name, auth_provider, fault, dir) ==
    LET dirs == [i \in DOMAIN StandardDirs(auth_provider) |->
                    join(<<name>>, StandardDirs(auth_provider)[i])]
        n == IF fault = 0 THEN Len(dirs) ELSE fault - 1
        all[i \in 0..n] ==
            IF i = 0 THEN (IF name # "." THEN create_dir_all(dir, <<name>>) ELSE dir)
            ELSE create_dir_all(all[i - 1], dirs[i])
    IN  [res |-> IF fault = 0 THEN Ok
                 ELSE Err(<<"Failed to create directory: ">> \o StandardDirs(auth_provider)[fault]),
         dir |-> all[n], made |-> SubSeq(dirs, 1, n)]

\* utils::fs::write_file: the parent directories are made, the file is written
write_file(dir, project_path, relative, content) ==
    WriteAt(create_dir_all(dir, parent(join(<<project_path>>, relative))),
            join(<<project_path>>, relative), content)

\* the write_file calls of better_auth::scaffold and of next_auth::scaffold
BetterAuthFiles ==
    << <<(<<"src/server/auth.ts">>), (<<"better_auth::AUTH_CONFIG">>)>>,
       <<(<<"src/app/api/auth", "/", "[...all]", "/", "route.ts">>),
         (<<"better_auth::AUTH_ROUTE">>)>>,
       <<(<<"src/lib/auth-client.ts">>), (<<"better_auth::AUTH_CLIENT">>)>> >>

NextAuthFiles ==
    << <<(<<"src/server/auth.ts">>), (<<"next_auth::AUTH_CONFIG">>)>>,
       <<(<<"src/app/api/auth", "/", "[...nextauth]", "/", "route.ts">>),
         (<<"next_auth::AUTH_ROUTE">>)>>,
       <<(<<"src/lib/auth-client.ts">>), (<<"next_auth::AUTH_CLIENT">>)>>,
       <<(<<"src/components/providers", "/", "session-provider.tsx">>),
         (<<"next_auth::SESSION_PROVIDER">>)>> >>

\* the scaffold of the provider create::execute was given: its files, then
\* its models appended to the schema; the fault-th write fails (0: none does)
auth_scaffold(auth_provider, project_path, fault, dir, schema_file) ==
    LET list == IF auth_provider = "BetterAuth" THEN BetterAuthFiles ELSE NextAuthFiles
        n == IF fault = 0 THEN Len(list) ELSE fault - 1
        all[i \in 0..n] ==
            IF i = 0 THEN dir
            ELSE write_file(all[i - 1], project_path, list[i][1], list[i][2])
        appended == IF auth_provider = "BetterAuth"
                    THEN better_auth_append_to_prisma_schema(schema_file)
                    ELSE next_auth_append_to_prisma_schema(schema_file)
    IN  IF fault # 0
        THEN [res |-> Err(<<"Failed to write file: ">> \o list[fault][1]), dir |-> all[n],
              schema |-> schema_file]
        ELSE [res |-> appended.res, dir |-> all[n], schema |-> appended.schema]
NoCache == [exists |-> FALSE, files |-> {}]

\* remote::copy_dir_recursive: every entry of src is copied below dest
copy_dir_recursive(src, dest) == dest \cup src

\* a variant that takes an empty cache directory for a missing one
get_or_fetch_directory_refetching(remote_path, use_cache, responses, local_ok, cached, local_dest) ==
    IF use_cache /\ cached.exists /\ cached.files # {}
    THEN [res |-> Ok, cache |-> cached,
          dest |-> copy_dir_recursive(cached.files, local_dest),
          steps |-> <<"copy_dir_recursive">>]
    ELSE LET r == fetch_known_files(remote_path, responses, local_ok,
                                    IF use_cache THEN cached.files ELSE local_dest)
         IN  IF ~use_cache
             THEN [res |-> r.res, cache |-> cached, dest |-> r.local,
                   steps |-> <<"fetch_directory">>]
             ELSE IF r.res.status # "ok"
             THEN [res |-> r.res, cache |-> cached, dest |-> local_dest,
                   steps |-> <<"fetch_directory">>]
             ELSE [res |-> Ok, cache |-> [exists |-> TRUE, files |-> r.local],
                   dest |-> copy_dir_recursive(r.local, local_dest),
                   steps |-> <<"fetch_directory", "copy_dir_recursive">>]

\* templates::remote::get_or_fetch_directory; steps are the calls it made
get_or_fetch_directory(remote_path, use_cache, responses, local_ok, cached, local_dest) ==
    IF use_cache
    THEN IF cached.exists
         THEN [res |-> Ok, cache |-> cached,
               dest |-> copy_dir_recursive(cached.files, local_dest),
               steps |-> <<"copy_dir_recursive">>]
         ELSE LET r == fetch_known_files(remote_path, responses, local_ok, cached.files)
              IN  IF r.res.status # "ok"
                  THEN [res |-> r.res, cache |-> cached, dest |-> local_dest,
                        steps |-> <<"fetch_directory">>]
                  ELSE [res |-> Ok,
                        cache |-> [exists |-> TRUE, files |-> r.local],
                        dest |-> copy_dir_recursive(r.local, local_dest),
                        steps |-> <<"fetch_directory", "copy_dir_recursive">>]
    ELSE LET r == fetch_known_files(remote_path, responses, local_ok, local_dest)
         IN  [res |-> r.res, cache |-> cached, dest |-> r.local,
              steps |-> <<"fetch_directory">>]


(* ------------------------------------------------------------------ *)
(* Inputs                                                               *)
(* ------------------------------------------------------------------ *)
SeqsUpTo(S, n) == UNION {[1..k -> S] : k \in 0..n}

PartialMaps(K, V) == UNION {[D -> V] : D \in SUBSET K}

RECURSIVE Concat(_)
Concat(ss) == IF ss = <<>> THEN <<>> ELSE ss[1] \o Concat(Tail(ss))

\* the identifiers handed to add::execute: the four of the match and two others
Extensions == {"ai", "ui", "restate", "cmd", "auth", "AI"}

ValidExtensions == {"ai", "ui", "restate", "cmd"}

AuthProviders == {"BetterAuth", "NextAuth"}

\* the name given to create
ProjectNames == {".", "my-app"}

\* small manifests: groups over the names a, b
UnitNames == {"a", "b"}

UnitGroups ==
    {JMissing, JNull, JOther} \cup {JObj(m) : m \in PartialMaps(UnitNames, {"1.0", "2.0"})}

UnitDevGroups ==
    {JMissing, JOther, JObj(EmptyMap), JObj([k \in {"a"} |-> "1.0"])}

\* a manifest that already holds some of the extensions' packages at other versions
OlderDependencies ==
    << <<"zod", "^3.23.0">>, <<"pg", "^7.0.0">>, <<"sonner", "^1.0.0">>,
       <<"lucide-react", "^0.300.0">>, <<"langchain", "^0.1.0">> >>

OlderDevDependencies == << <<"@types/pg", "^7.0.0">> >>

UnitDocs ==
    {Doc("obj", g, d, "name, version") : g \in UnitGroups, d \in UnitDevGroups}
    \cup {Doc("null", JMissing, JMissing, ""), Doc("other", JMissing, JMissing, "")}
    \cup {Doc("obj", JObj(MapOfList(EmptyMap, OlderDependencies)), d, "name, version") :
            d \in {JMissing, JObj(MapOfList(EmptyMap, OlderDevDependencies))}}
    \cup {finalize_package_json(ai, ui, auth).doc :
            ai \in BOOLEAN, ui \in BOOLEAN, auth \in AuthProviders}

UnitPkgFiles == {AbsentFile, InvalidFile} \cup {JsonFile("raw", d) : d \in UnitDocs}

\* fragments handed to merge_dependencies
FragPairs == {<<n, v>> : n \in UnitNames, v \in {"2.0", "3.0"}}

Frags == SeqsUpTo(FragPairs, MaxFrag)

DevFrags == {<<>>, << <<"a", "2.0">> >>, << <<"b", "3.0">> >>}

\* small bundles: namespaces chat, nav, docs with nested maps over x, y, w
NestedValues ==
    {[k \in {"x"} |-> "old"],
     [k \in {"x", "y"} |-> IF k = "x" THEN "new" ELSE "z"],
     [k \in {"x", "w"} |-> IF k = "x" THEN "old" ELSE "kept"]}

UnitBundles ==
    {AbsentBundle, InvalidBundle, BundleFile("raw", JOther),
     BundleFile("raw", MESSAGES_EN)}
    \cup {BundleFile("raw", JObj(m)) : m \in PartialMaps({"chat", "nav"}, NestedValues)}

UnitBundleFragments ==
    {InvalidJsonText, JsonText(JOther), CMD_MESSAGES_EN}
    \cup {JsonText(JObj(m)) : m \in PartialMaps({"chat", "docs"}, NestedValues)}

\* schema texts: up to MaxChunks pieces one after the other
SchemaChunks ==
    {PRISMA_SCHEMA,
     GeneratorMatch \o <<NL>>,
     GeneratorReplacement \o <<NL>>,
     BETTER_AUTH_MODELS,
     NEXT_AUTH_MODELS,
     <<"model Team {", NL>> \o UserTailMatch \o <<NL>>,
     <<"model User {", NL, "  id String @id", NL, "}", NL>>,
     CMD_PRISMA_MODELS}

UnitSchemas ==
    {AbsentSchema} \cup {SchemaText(Concat(cs)) : cs \in SeqsUpTo(SchemaChunks, MaxChunks)}

\* remote paths asked for, and what the server answers for each listed file:
\* all succeed, none can be reached, or one file is missing or unreachable
RemotePaths == {<<"agents/core">>, <<"agents/core", "/v2">>, <<"ui">>, <<"restate">>}

Responses(remote_path) ==
    LET fs == {KnownFiles(remote_path)[i] : i \in DOMAIN KnownFiles(remote_path)}
    IN  {[f \in fs |-> "200"], [f \in fs |-> "unreachable"]}
        \cup {[f \in fs |-> IF f = g THEN o ELSE "200"] : g \in fs, o \in {"404", "unreachable"}}

\* prefixes handed to copy_embedded_dir: the ones of t3, ui and ai, a whole
\* file path, one that selects nothing, and the empty one
Prefixes ==
    {<<"docker">>, <<"docs">>, <<"ui", "/">>, <<"ai", "/", "core">>, <<"ui">>,
     <<"ai", "/", "core", "/", "providers">>, <<"docs", "/", "README.md">>,
     <<"restate", "/">>, <<>>}

DestPaths == {<<"my-app">>, <<"my-app", "/", "src", "/", "components", "/", "ui">>}

\* what the destination holds before the copy
DestDirs(dest_path) ==
    {{}, {<<join(dest_path, <<"button.tsx">>), <<"edited">>>>,
          <<join(dest_path, <<"notes.md">>), <<"kept">>>>}}

\* what the target directory holds before create: nothing, or the directories
\* and auth files of a project created there with either provider
ExistingDirs(name) ==
    {{}} \cup
    {auth_scaffold(p, name, 0, create_project_dir(name, p, 0, {}).dir,
                   SchemaText(PRISMA_SCHEMA)).dir : p \in AuthProviders}

\* the answers drawn at each call of get_or_fetch_directory: all succeed, none
\* can be reached, or the first listed file is missing
CallResponses(remote_path) ==
    {r \in Responses(remote_path) :
        \A i \in DOMAIN KnownFiles(remote_path) :
            i > 1 => r[KnownFiles(remote_path)[i]] = r[KnownFiles(remote_path)[2]]}

\* the cached path at the start: missing, an empty directory, or a directory
\* left by an earlier run
Caches ==
    {NoCache, [exists |-> TRUE, files |-> {}], [exists |-> TRUE, files |-> {"button.tsx"}]}

\* working directories the add workflow is started in
ProjectPkgFiles ==
    {AbsentFile, InvalidFile,
     finalize_package_json(FALSE, FALSE, "BetterAuth"),
     finalize_package_json(TRUE, TRUE, "NextAuth"),
     JsonFile("raw", Doc("obj", JObj(MapOfList(EmptyMap, OlderDependencies)), JMissing,
                         "name, version")),
     JsonFile("raw", Doc("obj", JMissing, JObj(EmptyMap), "name, version")),
     JsonFile("raw", Doc("other", JMissing, JMissing, ""))}

\* what is beside package.json: a created project (either auth provider), a
\* created project with one artifact missing or edited, or nothing at all
CreatedProject(auth_provider) ==
    FS(AbsentFile,
       SchemaText(PRISMA_SCHEMA \o
           (IF auth_provider = "BetterAuth" THEN BETTER_AUTH_MODELS ELSE NEXT_AUTH_MODELS)),
       BundleFile("raw", MESSAGES_EN), BundleFile("raw", MESSAGES_DE), CreatedFiles)

ProjectShapes ==
    LET c == CreatedProject("BetterAuth")
    IN  {c, CreatedProject("NextAuth"),
         [c EXCEPT !.schema = AbsentSchema],
         [c EXCEPT !.schema = SchemaText(<<"model Team {", NL>> \o UserTailMatch \o <<NL>>)],
         [c EXCEPT !.en = AbsentBundle],
         [c EXCEPT !.en = InvalidBundle],
         [c EXCEPT !.en = BundleFile("raw",
             JObj([k \in {"chat"} |-> [x \in {"title", "mine"} |-> "My chat"]]))],
         [c EXCEPT !.de = AbsentBundle],
         [c EXCEPT !.files = NoFiles],
         FS(AbsentFile, AbsentSchema, AbsentBundle, AbsentBundle, NoFiles)}

(* ------------------------------------------------------------------ *)
(* State machine                                                        *)
(* ------------------------------------------------------------------ *)
Current == FS(pkg, schema, en, de, files)

\* the process: not yet exited, or exited with a code after writing to stderr
Running == [exited |-> FALSE, code |-> 0, stderr |-> <<>>]

\* main with the error left unreported: Ok(()) whatever run returned
main_ignoring(res) ==
    IF res.status = "panic"
    THEN [exited |-> TRUE, code |-> 101, stderr |-> <<"panicked at">> \o res.msg]
    ELSE [exited |-> TRUE, code |-> 0, stderr |-> <<>>]

\* main: if let Err(e) = run(args).await { eprintln!("Error: {e}"); exit(1) } Ok(())
\* (a panic unwinds out of main: the runtime prints it and exits with 101)
main(res) ==
    CASE res.status = "ok" -> [exited |-> TRUE, code |-> 0, stderr |-> <<>>]
      [] res.status = "err" -> [exited |-> TRUE, code |-> 1, stderr |-> <<"Error:">> \o res.msg]
      [] OTHER -> [exited |-> TRUE, code |-> 101, stderr |-> <<"panicked at">> \o res.msg]

NoCall == [fn |-> "none", deps |-> <<>>, dev |-> <<>>, msgs |-> InvalidJsonText]
NoOp == [name |-> "none", ext |-> "", pre |-> FS(AbsentFile, AbsentSchema, AbsentBundle, AbsentBundle, NoFiles)]

Init ==
    /\ pkg \in ProjectPkgFiles
    /\ \E p \in ProjectShapes :
          schema = p.schema /\ en = p.en /\ de = p.de /\ files = p.files
    /\ result = NoResult
    /\ ran = <<>>
    /\ op = NoOp
    /\ call = NoCall
    /\ hist = <<>>
    /\ base = Current
    /\ target = ProjectDir
    /\ fetched = {}
    /\ cache = NoCache
    /\ proc = Running

\* t3-mono add <extension>
Add(extension) ==
    /\ Len(hist) < MaxAdds
    /\ LET r == add_execute(Current, extension)
       IN  /\ pkg' = r.fs.pkg
           /\ schema' = r.fs.schema
           /\ en' = r.fs.en
           /\ de' = r.fs.de
           /\ files' = r.fs.files
           /\ result' = r.res
           /\ ran' = r.ran
           /\ hist' = Append(hist, [ext |-> extension, status |-> r.res.status])
           /\ proc' = main(r.res)
    /\ op' = [name |-> "add", ext |-> extension, pre |-> Current]
    /\ UNCHANGED <<call, base, target, fetched, cache>>

Next == \E extension \in Extensions : Add(extension)

Spec == Init /\ [][Next]_vars

(* ------------------------------------------------------------------ *)
(* One function applied repeatedly                                      *)
(* ------------------------------------------------------------------ *)
DefaultPkg == finalize_package_json(FALSE, FALSE, "BetterAuth")
DefaultSchema == SchemaText(PRISMA_SCHEMA \o BETTER_AUTH_MODELS)
DefaultEn == BundleFile("raw", MESSAGES_EN)
DefaultDe == BundleFile("raw", MESSAGES_DE)

UnitInit ==
    /\ files = NoFiles
    /\ de = DefaultDe
    /\ result = NoResult
    /\ ran = <<>>
    /\ op = NoOp
    /\ hist = <<>>
    /\ \/ /\ pkg \in {f \in UnitPkgFiles : f.st = "json"}
          /\ \E fd \in Frags, fv \in DevFrags :
                call = [fn |-> "merge_dependencies", deps |-> fd, dev |-> fv,
                        msgs |-> InvalidJsonText]
          /\ schema = DefaultSchema /\ en = DefaultEn
       \/ /\ pkg \in UnitPkgFiles
          /\ \E fn \in {"update_package_json_ai", "update_package_json_ui",
                        "update_package_json_cmd"} :
                call = [NoCall EXCEPT !.fn = fn]
          /\ schema = DefaultSchema /\ en = DefaultEn
       \/ /\ en \in UnitBundles
          /\ \E m \in UnitBundleFragments :
                call = [fn |-> "merge_translations", deps |-> <<>>, dev |-> <<>>, msgs |-> m]
          /\ pkg = DefaultPkg /\ schema = DefaultSchema
       \/ /\ schema \in UnitSchemas
          /\ \E fn \in {"modify_prisma_schema", "better_auth::append_to_prisma_schema",
                        "next_auth::append_to_prisma_schema"} :
                call = [NoCall EXCEPT !.fn = fn]
          /\ pkg = DefaultPkg /\ en = DefaultEn
       \/ /\ \E p \in RemotePaths, l \in BOOLEAN :
                \E r \in Responses(p) :
                    call = [fn |-> "fetch_known_files", deps |-> <<>>, dev |-> <<>>,
                            msgs |-> InvalidJsonText, remote_path |-> p,
                            responses |-> r, local_ok |-> l]
          /\ pkg = DefaultPkg /\ schema = DefaultSchema /\ en = DefaultEn
       \/ /\ \E p \in RemotePaths :
                call = [fn |-> "get_or_fetch_directory", deps |-> <<>>, dev |-> <<>>,
                        msgs |-> InvalidJsonText, remote_path |-> p]
          /\ pkg = DefaultPkg /\ schema = DefaultSchema /\ en = DefaultEn
       \/ /\ \E n \in ProjectNames, p \in AuthProviders, ai \in BOOLEAN, ui \in BOOLEAN :
                call = [fn |-> "create_project_dir", deps |-> <<>>, dev |-> <<>>,
                        msgs |-> InvalidJsonText, name |-> n, auth_provider |-> p,
                        include_ai |-> ai, include_ui |-> ui]
          /\ pkg \in {AbsentFile, DefaultPkg}
          /\ schema = SchemaText(PRISMA_SCHEMA) /\ en = DefaultEn
       \/ /\ \E p \in Prefixes, d \in DestPaths :
                call = [fn |-> "copy_embedded_dir", deps |-> <<>>, dev |-> <<>>,
                        msgs |-> InvalidJsonText, embedded_prefix |-> p, dest_path |-> d]
          /\ pkg = DefaultPkg /\ schema = DefaultSchema /\ en = DefaultEn
    /\ cache \in (IF call.fn = "get_or_fetch_directory" THEN Caches ELSE {NoCache})
    /\ base = Current
    /\ target = ProjectDir
    /\ fetched \in (CASE call.fn = "copy_embedded_dir" -> DestDirs(call.dest_path)
                      [] call.fn = "create_project_dir" -> ExistingDirs(call.name)
                      [] OTHER -> {{}})
    /\ proc = Running

Called(res) ==
    /\ result' = res
    /\ ran' = <<call.fn>>
    /\ op' = [name |-> call.fn, ext |-> "", pre |-> Current]
    /\ hist' = Append(hist, [ext |-> "", status |-> res.status])
    /\ UNCHANGED <<call, base, files, de, target, proc>>

CallMergeDependencies ==
    /\ call.fn = "merge_dependencies"
    /\ Len(hist) < MaxCalls
    /\ pkg' = [pkg EXCEPT !.doc = merge_dependencies(pkg.doc, call.deps, call.dev)]
    /\ UNCHANGED <<schema, en, fetched, cache>>
    /\ Called(Ok)

CallUpdatePackageJson ==
    /\ call.fn \in {"update_package_json_ai", "update_package_json_ui",
                    "update_package_json_cmd"}
    /\ Len(hist) < MaxCalls
    /\ LET r == CASE call.fn = "update_package_json_ai" -> update_package_json_ai(pkg)
                  [] call.fn = "update_package_json_ui" -> update_package_json_ui(pkg)
                  [] OTHER -> update_package_json_cmd(pkg)
       IN  pkg' = r.pkg /\ Called(r.res)
    /\ UNCHANGED <<schema, en, fetched, cache>>

CallMergeTranslations ==
    /\ call.fn = "merge_translations"
    /\ Len(hist) < MaxCalls
    /\ LET r == merge_translations(en, call.msgs)
       IN  en' = r.file /\ Called(r.res)
    /\ UNCHANGED <<pkg, schema, fetched, cache>>

CallSchemaPatch ==
    /\ call.fn \in {"modify_prisma_schema", "better_auth::append_to_prisma_schema",
                    "next_auth::append_to_prisma_schema"}
    /\ Len(hist) < MaxCalls
    /\ LET r == CASE call.fn = "modify_prisma_schema" -> modify_prisma_schema(schema)
                  [] call.fn = "better_auth::append_to_prisma_schema" ->
                        better_auth_append_to_prisma_schema(schema)
                  [] OTHER -> next_auth_append_to_prisma_schema(schema)
       IN  schema' = r.schema /\ Called(r.res)
    /\ UNCHANGED <<pkg, en, fetched, cache>>

\* templates::remote::fetch_directory, which hands over to fetch_known_files
CallFetchDirectory ==
    /\ call.fn = "fetch_known_files"
    /\ Len(hist) < MaxCalls
    /\ LET r == fetch_known_files(call.remote_path, call.responses, call.local_ok, fetched)
       IN  fetched' = r.local /\ Called(r.res)
    /\ UNCHANGED <<pkg, schema, en, cache>>

\* templates::remote::get_or_fetch_directory for one remote path, the server's
\* answers and use_cache chosen anew at every call
CallGetOrFetchDirectory ==
    /\ call.fn = "get_or_fetch_directory"
    /\ Len(hist) < MaxCalls
    /\ \E use_cache \in BOOLEAN, local_ok \in BOOLEAN :
          \E responses \in CallResponses(call.remote_path) :
            LET r == get_or_fetch_directory(call.remote_path, use_cache, responses,
                                            local_ok, cache, fetched)
            IN  /\ cache' = r.cache
                /\ fetched' = r.dest
                /\ result' = r.res
                /\ ran' = r.steps
                /\ op' = [name |-> call.fn, ext |-> "", pre |-> Current,
                          use_cache |-> use_cache, responses |-> responses,
                          cache |-> cache, dest |-> fetched]
                /\ hist' = Append(hist, [ext |-> "", status |-> r.res.status,
                                         use_cache |-> use_cache, steps |-> r.steps])
    /\ UNCHANGED <<pkg, schema, en, call, base, files, de, target, proc>>

\* templates::embedded::copy_embedded_dir into the directory `fetched`, where
\* the write of one of the listed files may fail
CallCopyEmbeddedDir ==
    /\ call.fn = "copy_embedded_dir"
    /\ Len(hist) < MaxCalls
    /\ \E fault \in 0..Len(list_templates(call.embedded_prefix)) :
          LET r == copy_embedded_files(call.embedded_prefix, call.dest_path, fault, fetched)
          IN  /\ fetched' = r.dir
              /\ result' = r.res
              /\ ran' = <<call.fn>>
              /\ op' = [name |-> call.fn, ext |-> "", pre |-> Current,
                        fault |-> fault, dest |-> fetched]
              /\ hist' = Append(hist, [ext |-> "", status |-> r.res.status])
    /\ UNCHANGED <<pkg, schema, en, cache, call, base, files, de, target, proc>>

\* the steps of create::execute that depend on the auth provider, one after
\* the other: fs::create_project_dir, ...
CallCreateProjectDir ==
    /\ call.fn = "create_project_dir"
    /\ hist = <<>>
    /\ \E fault \in 0..Len(StandardDirs(call.auth_provider)) :
          LET r == create_project_dir(call.name, call.auth_provider, fault, fetched)
          IN  /\ fetched' = r.dir
              /\ result' = r.res
              /\ ran' = r.made
              /\ op' = [name |-> "create_project_dir", ext |-> "", pre |-> Current,
                        dest |-> fetched]
              /\ hist' = Append(hist, [ext |-> "", status |-> r.res.status, made |-> r.made])
    /\ UNCHANGED <<pkg, schema, en, cache, call, base, files, de, target, proc>>

\* ... the scaffold of the selected provider, ...
CallAuthScaffold ==
    /\ call.fn = "create_project_dir"
    /\ Len(hist) = 1 /\ result = Ok
    /\ \E fault \in 0..Len(IF call.auth_provider = "BetterAuth"
                            THEN BetterAuthFiles ELSE NextAuthFiles) :
          LET r == auth_scaffold(call.auth_provider, call.name, fault, fetched, schema)
          IN  /\ fetched' = r.dir
              /\ schema' = r.schema
              /\ result' = r.res
              /\ ran' = <<"auth::scaffold">>
              /\ op' = [name |-> "auth::scaffold", ext |-> "", pre |-> Current,
                        dest |-> fetched]
              /\ hist' = Append(hist, [ext |-> "", status |-> r.res.status])
    /\ UNCHANGED <<pkg, en, cache, call, base, files, de, target, proc>>

\* ... and t3::finalize_package_json
CallFinalizePackageJson ==
    /\ call.fn = "create_project_dir"
    /\ Len(hist) = 2 /\ result = Ok
    /\ pkg' = finalize_package_json(call.include_ai, call.include_ui, call.auth_provider)
    /\ result' = Ok
    /\ ran' = <<"finalize_package_json">>
    /\ op' = [name |-> "finalize_package_json", ext |-> "", pre |-> Current]
    /\ hist' = Append(hist, [ext |-> "", status |-> "ok"])
    /\ UNCHANGED <<schema, en, fetched, cache, call, base, files, de, target, proc>>

UnitNext ==
    \/ CallMergeDependencies
    \/ CallUpdatePackageJson
    \/ CallMergeTranslations
    \/ CallSchemaPatch
    \/ CallFetchDirectory
    \/ CallGetOrFetchDirectory
    \/ CallCopyEmbeddedDir
    \/ CallCreateProjectDir
    \/ CallAuthScaffold
    \/ CallFinalizePackageJson

UnitSpec == UnitInit /\ [][UnitNext]_vars

(* ------------------------------------------------------------------ *)
(* One run with a failing step, then further add runs                   *)
(* ------------------------------------------------------------------ *)
NoProject == FS(AbsentFile, AbsentSchema, AbsentBundle, AbsentBundle, NoFiles)

\* the project create leaves for Better Auth without extensions
DefaultProject == [CreatedProject("BetterAuth") EXCEPT !.pkg = DefaultPkg]

RunInit ==
    /\ \/ /\ target \in {Dir(FALSE, FALSE), Dir(TRUE, FALSE), Dir(TRUE, TRUE)}
          /\ pkg = AbsentFile /\ schema = AbsentSchema
          /\ en = AbsentBundle /\ de = AbsentBundle /\ files = NoFiles
       \/ /\ target = ProjectDir
          /\ pkg \in ProjectPkgFiles
          /\ \E p \in ProjectShapes :
                schema = p.schema /\ en = p.en /\ de = p.de /\ files = p.files
    /\ result = NoResult
    /\ ran = <<>>
    /\ op = NoOp
    /\ call = NoCall
    /\ hist = <<>>
    /\ base = Current
    /\ fetched = {}
    /\ cache = NoCache
    /\ proc = Running

\* the outcome r of a run becomes the state
Ran(r, name, ext, args, fault, torn, steps) ==
    /\ pkg' = r.rs.fs.pkg
    /\ schema' = r.rs.fs.schema
    /\ en' = r.rs.fs.en
    /\ de' = r.rs.fs.de
    /\ files' = r.rs.fs.files
    /\ target' = r.rs.target
    /\ result' = r.res
    /\ ran' = r.done
    /\ proc' = main(r.res)
    /\ hist' = Append(hist, [ext |-> ext, status |-> r.res.status])
    /\ op' = [name |-> name, ext |-> ext, pre |-> Current, target |-> target,
              args |-> args, fault |-> fault, torn |-> torn, steps |-> steps]
    /\ UNCHANGED <<call, base, fetched, cache>>

\* t3-mono <name> [--ai] [--ui] [--restate] [--no-git] [--auth=..] with the
\* target missing, empty, holding foreign entries, or a project created before
Create(args, fault, torn) ==
    /\ hist = <<>>
    /\ Current \in {NoProject, DefaultProject}
    /\ args.name = "." => target.exists
    /\ fault \in 0..Len(CreateSteps(args))
    /\ torn => (fault > 0 /\ Writes(CreateSteps(args)[fault]) # "<untracked>")
    /\ Ran(create_execute(RS(Current, target), args, fault, torn),
           "create", "create", args, fault, torn, CreateSteps(args))

\* t3-mono add <extension> as the first run, an I/O step failing or none
AddRun(extension, fault, torn) ==
    /\ hist = <<>>
    /\ target.exists
    /\ LET steps == IF extension \in ValidExtensions THEN AddSteps(extension) ELSE <<>>
       IN  /\ fault \in 0..Len(steps)
           /\ torn => (fault > 0 /\ Writes(steps[fault]) # "<untracked>")
           /\ Ran(add_run(RS(Current, target), extension, fault, torn),
                  "add", extension, NoArgs, fault, torn, steps)

\* a later run: any add after a success or after a create that failed, the
\* same add again after an add that failed
AddAgain(extension) ==
    /\ hist # <<>>
    /\ \/ result.status = "ok"
       \/ op.name = "create"
       \/ op.name = "add" /\ extension = op.ext
    /\ Add(extension)

RunNext ==
    \/ /\ hist = <<>>
       /\ Current \in {NoProject, DefaultProject}
       /\ \E name \in ProjectNames, ai \in BOOLEAN, ui \in BOOLEAN, restate \in BOOLEAN,
             init_git \in BOOLEAN, auth \in AuthProviders, torn \in BOOLEAN :
             \E fault \in 0..(Len(CreateSteps(CreateArgs(name, TRUE, TRUE, TRUE, TRUE, auth)))) :
                 Create(CreateArgs(name, ai, ui, restate, init_git, auth), fault, torn)
    \/ /\ hist = <<>>
       /\ \E extension \in Extensions, torn \in BOOLEAN :
             \E fault \in 0..Len(CmdSteps \o <<"update_package_json_cmd">>) :
                 AddRun(extension, fault, torn)
    \/ /\ hist # <<>>
       /\ \E extension \in Extensions : AddAgain(extension)

RunSpec == RunInit /\ [][RunNext]_vars


(* ------------------------------------------------------------------ *)
(* Properties                                                           *)
(* ------------------------------------------------------------------ *)
Range(f) == {f[i] : i \in DOMAIN f}

KeysOf(list) == {list[i][1] : i \in DOMAIN list}

\* the version the list gives for name: that of its first pair with the name
ListedVersion(list, name) ==
    list[CHOOSE i \in DOMAIN list :
            list[i][1] = name /\ \A j \in DOMAIN list : list[j][1] = name => i <= j][2]

\* after is before with the absent keys of list added and nothing else changed
AddedMissingOnly(before, after, list) ==
    /\ before.kind = "obj" /\ after.kind = "obj"
    /\ DOMAIN after.map = (DOMAIN before.map) \cup KeysOf(list)
    /\ \A k \in DOMAIN before.map : after.map[k] = before.map[k]
    /\ \A k \in KeysOf(list) \ DOMAIN before.map : after.map[k] = ListedVersion(list, k)

UpdatePackageJsonNames ==
    {"update_package_json_ai", "update_package_json_ui", "update_package_json_cmd"}

ListOf(fn) ==
    CASE fn = "update_package_json_ai" -> ai_deps
      [] fn = "update_package_json_ui" -> ui_deps
      [] OTHER -> cmd_deps

\* C1: a dependency merge keeps every key the group of the base had with the
\* base's value, adds every key of the fragment the group lacked with the
\* fragment's value (the first one listed), and leaves no other key in the
\* group; for merge_dependencies and for update_package_json_ai / _ui / _cmd,
\* the latter also on devDependencies.
C1_DependencyMerge ==
    /\ (op.name = "merge_dependencies" /\ op.pre.pkg.doc.root = "obj") =>
          /\ op.pre.pkg.doc.deps.kind = "obj" =>
                AddedMissingOnly(op.pre.pkg.doc.deps, pkg.doc.deps, call.deps)
          /\ op.pre.pkg.doc.dev.kind = "obj" =>
                AddedMissingOnly(op.pre.pkg.doc.dev, pkg.doc.dev, call.dev)
    /\ (/\ op.name \in UpdatePackageJsonNames
        /\ op.pre.pkg.st = "json"
        /\ op.pre.pkg.doc.root = "obj"
        /\ op.pre.pkg.doc.deps.kind = "obj") =>
          /\ result.status = "ok"
          /\ pkg.st = "json"
          /\ AddedMissingOnly(op.pre.pkg.doc.deps, pkg.doc.deps, ListOf(op.name))
          /\ (op.name = "update_package_json_cmd" /\ op.pre.pkg.doc.dev.kind = "obj") =>
                AddedMissingOnly(op.pre.pkg.doc.dev, pkg.doc.dev, cmd_dev_deps)

\* C1 witness: {"dependencies": {"a": "1.0"}} merged with [("a","2.0"), ("b","3.0")]
\* has become {"a": "1.0", "b": "3.0"}
C1_Witness ==
    /\ op.name = "merge_dependencies"
    /\ op.pre.pkg.doc.deps = JObj([k \in {"a"} |-> "1.0"])
    /\ call.deps = << <<"a", "2.0">>, <<"b", "3.0">> >>
    /\ pkg.doc.deps = JObj([k \in {"a", "b"} |-> IF k = "a" THEN "1.0" ELSE "3.0"])

\* C2: merge_translations leaves every top-level key of the fragment with
\* exactly the fragment's value (nothing of the base survives below a
\* colliding namespace), keeps every other key of the base, and adds no key.
C2_NamespaceOverwrite ==
    (/\ op.name = "merge_translations"
     /\ op.pre.en.st = "json"
     /\ op.pre.en.val.kind = "obj"
     /\ call.msgs.st = "json"
     /\ call.msgs.val.kind = "obj") =>
        /\ result.status = "ok"
        /\ en.st = "json" /\ en.val.kind = "obj"
        /\ DOMAIN en.val.map = (DOMAIN op.pre.en.val.map) \cup (DOMAIN call.msgs.val.map)
        /\ \A k \in DOMAIN call.msgs.val.map : en.val.map[k] = call.msgs.val.map[k]
        /\ \A k \in (DOMAIN op.pre.en.val.map) \ (DOMAIN call.msgs.val.map) :
              en.val.map[k] = op.pre.en.val.map[k]

\* C2 witness: the base had chat = {x: old, w: kept} and nav, the fragment
\* brought chat = {x: new, y: z}; chat is now the fragment's and w is gone
C2_Witness ==
    /\ op.name = "merge_translations"
    /\ result.status = "ok"
    /\ "nav" \in DOMAIN op.pre.en.val.map
    /\ "chat" \in DOMAIN op.pre.en.val.map
    /\ "w" \in DOMAIN op.pre.en.val.map["chat"]
    /\ "chat" \in DOMAIN call.msgs.val.map
    /\ en.val.map["chat"] = [k \in {"x", "y"} |-> IF k = "x" THEN "new" ELSE "z"]

StructuredMergeNames ==
    UpdatePackageJsonNames \cup {"merge_dependencies", "merge_translations"}

\* C3: a dependency-manifest merge or a message-bundle merge applied again
\* with the same fragment leaves the document as the first application left it.
C3_MergeIdempotent ==
    (Len(hist) >= 2 /\ op.name \in StructuredMergeNames) =>
        /\ pkg = op.pre.pkg
        /\ en = op.pre.en
        /\ hist[Len(hist)].status = hist[Len(hist) - 1].status

\* C3 witness: update_package_json_cmd has run twice with success on a manifest
\* that its first run changed
C3_Witness ==
    /\ Len(hist) = 2
    /\ op.name = "update_package_json_cmd"
    /\ result.status = "ok"
    /\ pkg.doc # base.pkg.doc
    /\ pkg = op.pre.pkg

SchemaPatchNames ==
    {"modify_prisma_schema", "better_auth::append_to_prisma_schema",
     "next_auth::append_to_prisma_schema"}

BlockOf(fn) ==
    CASE fn = "modify_prisma_schema" -> CMD_PRISMA_MODELS
      [] fn = "better_auth::append_to_prisma_schema" -> BETTER_AUTH_MODELS
      [] OTHER -> NEXT_AUTH_MODELS

Occurrences(s, pat) == {i \in 1..Len(s) : IsAt(s, pat, i)}

\* C4: a schema fragment applied again is appended again: the text after the
\* second application is the text after the first followed by one more copy
\* of the block, so it differs from it and holds the block at least twice.
C4_AppendNotIdempotent ==
    (Len(hist) >= 2 /\ op.name \in SchemaPatchNames /\ result.status = "ok") =>
        /\ schema.text = op.pre.schema.text \o BlockOf(op.name)
        /\ schema.text # op.pre.schema.text
        /\ Cardinality(Occurrences(schema.text, BlockOf(op.name))) >= 2

\* C4 witness: modify_prisma_schema applied twice to a created Better Auth
\* schema, which now holds CMD_PRISMA_MODELS twice
C4_Witness ==
    /\ Len(hist) = 2
    /\ op.name = "modify_prisma_schema"
    /\ base.schema = SchemaText(PRISMA_SCHEMA \o BETTER_AUTH_MODELS)
    /\ Cardinality(Occurrences(schema.text, CMD_PRISMA_MODELS)) = 2

\* C5: add::execute in a directory without package.json returns an error, runs
\* no scaffolding routine and leaves every file as it was, whatever the identifier.
C5_NoManifestNoWrites ==
    (op.name = "add" /\ op.pre.pkg.st = "absent") =>
        /\ result.status = "err"
        /\ ran = <<>>
        /\ Current = op.pre

\* C5 witness: `add cmd` was run where package.json is absent but the schema
\* and bundles of a created project are present
C5_Witness ==
    /\ op.name = "add"
    /\ op.ext = "cmd"
    /\ op.pre.pkg.st = "absent"
    /\ op.pre.schema.st = "text"
    /\ result.status = "err"


\* the group the call targets is not an object in the artifact it was given
RootIsObject(f) == f.st = "json" /\ f.doc.root = "obj"

C7_CmdBlockAtMostOnce ==
    (/\ hist # <<>>
     /\ \A i \in DOMAIN hist : hist[i].ext = "cmd" /\ hist[i].status = "ok") =>
        Cardinality(Occurrences(schema.text, CMD_PRISMA_MODELS)) <= 1

\* what the arm of an identifier may run and where it may write
RoutinesOf(extension) ==
    CASE extension = "ai" -> <<"ai::scaffold", "update_package_json_ai">>
      [] extension = "ui" -> <<"ui::scaffold", "update_package_json_ui">>
      [] extension = "restate" -> <<"restate::scaffold">>
      [] extension = "cmd" -> <<"cmd::scaffold", "update_package_json_cmd">>

PathsOf(extension) ==
    CASE extension = "ai" -> AiPaths
      [] extension = "ui" -> UiPaths
      [] extension = "restate" -> RestatePaths
      [] extension = "cmd" -> CmdPaths

IsPrefix(a, b) == Len(a) <= Len(b) /\ SubSeq(b, 1, Len(a)) = a

\* C8: where package.json exists, add::execute with an identifier outside
\* {ai, ui, restate, cmd} returns an error whose message names the four
\* identifiers, runs no routine and changes no file; with an identifier of the
\* set it runs that extension's scaffolding routine first, nothing but that
\* extension's routines, and writes no plain file of another extension (the
\* schema and the message bundles are touched by cmd alone, package.json by
\* every arm but restate).
C8_Dispatch ==
    (op.name = "add" /\ op.pre.pkg.st # "absent") =>
        /\ op.ext \notin {"ai", "ui", "restate", "cmd"} =>
              /\ result.status = "err"
              /\ {"ai", "ui", "restate", "cmd"} \subseteq Range(result.msg)
              /\ op.ext \in Range(result.msg)
              /\ ran = <<>>
              /\ Current = op.pre
        /\ op.ext \in {"ai", "ui", "restate", "cmd"} =>
              /\ ran # <<>>
              /\ IsPrefix(ran, RoutinesOf(op.ext))
              /\ \A p \in Paths \ PathsOf(op.ext) : files[p] = op.pre.files[p]
              /\ op.ext # "cmd" => <<schema, en, de>> = <<op.pre.schema, op.pre.en, op.pre.de>>
              /\ op.ext = "restate" => pkg = op.pre.pkg

\* C8 witness: in a created project `add auth` was rejected with the message
\* naming the four identifiers, and `add ui` then ran the ui routines
C8_Witness ==
    /\ op.name = "add"
    /\ Len(hist) = 2
    /\ hist[1] = [ext |-> "auth", status |-> "err"]
    /\ base.pkg.st = "json"
    /\ op.ext = "ui"
    /\ result.status = "ok"
    /\ ran = <<"ui::scaffold", "update_package_json_ui">>
    /\ add_execute(base, "auth").res = Err(UnknownExtensionMessage("auth"))

\* the artifacts C9 compares
Artifacts(fs) == <<fs.pkg.doc.deps, fs.pkg.doc.dev, fs.schema, fs.en.val, fs.de.val>>

\* C9: two distinct extensions added one after the other, both with success,
\* leave the same dependencies, devDependencies, schema text and message
\* bundles as the same two added in the other order from the same project
\* (where that order succeeds as well).
C9_OrderIndependent ==
    (/\ Len(hist) = 2
     /\ op.name = "add"
     /\ hist[1].ext # hist[2].ext
     /\ hist[1].status = "ok" /\ hist[2].status = "ok") =>
        LET r1 == add_execute(base, hist[2].ext)
            r2 == add_execute(r1.fs, hist[1].ext)
        IN  (r1.res.status = "ok" /\ r2.res.status = "ok") =>
                Artifacts(r2.fs) = Artifacts(Current)

\* C9 witness: `add ai` then `add cmd` both succeeded on a created project, and
\* the other order succeeds there too
C9_Witness ==
    /\ Len(hist) = 2
    /\ hist[1] = [ext |-> "ai", status |-> "ok"]
    /\ hist[2] = [ext |-> "cmd", status |-> "ok"]
    /\ base.pkg = finalize_package_json(FALSE, FALSE, "BetterAuth")
    /\ add_execute(add_execute(base, "cmd").fs, "ai").res.status = "ok"


\* the worked example of the fragment appender, character by character:
\* text "model User {\n  a\n}", pair ("a", "a\n  b"), block "\nmodel Extra {}\n"
ExampleText ==
    <<"m", "o", "d", "e", "l", " ", "U", "s", "e", "r", " ", "{", NL,
      " ", " ", "a", NL, "}">>

ExampleMatch == <<"a">>

ExampleReplacement == <<"a", NL, " ", " ", "b">>

ExampleBlock ==
    <<NL, "m", "o", "d", "e", "l", " ", "E", "x", "t", "r", "a", " ", "{", "}", NL>>

ExampleResult ==
    <<"m", "o", "d", "e", "l", " ", "U", "s", "e", "r", " ", "{", NL,
      " ", " ", "a", NL, " ", " ", "b", NL, "}",
      NL, "m", "o", "d", "e", "l", " ", "E", "x", "t", "r", "a", " ", "{", "}", NL>>

\* every occurrence of pat in s is gone from t, and t is s with that many
\* patterns exchanged for the replacement
ReplacedEvery(s, t, pat, to) ==
    /\ Occurrences(t, pat) = {}
    /\ Len(t) + Cardinality(Occurrences(s, pat)) * Len(pat) =
          Len(s) + Cardinality(Occurrences(s, pat)) * Len(to)
    /\ Cardinality(Occurrences(t, to)) =
          Cardinality(Occurrences(s, to)) + Cardinality(Occurrences(s, pat))

\* C10 as claimed: modify_prisma_schema replaces every generator block, then
\* every datasource block, then every User back-reference tail, each in the
\* text the previous pair left, and appends CMD_PRISMA_MODELS at the end.
C10_ThreePairsThenAppend ==
    (op.name = "modify_prisma_schema" /\ result.status = "ok") =>
        LET t0 == op.pre.schema.text
            t1 == Replace(t0, GeneratorMatch, GeneratorReplacement)
            t2 == Replace(t1, DatasourceMatch, DatasourceReplacement)
            t3 == UserBackReferencesUnguarded(t2)
        IN  schema.text = t3 \o CMD_PRISMA_MODELS

\* C10 amended: modify_prisma_schema replaces every generator block, then every
\* datasource block in the text that leaves, then, only if that text contains
\* "model User {", every User back-reference tail; a text without
\* "model User {" keeps its tails.  CMD_PRISMA_MODELS is appended at the end.
\* Each pair is a literal replacement of every occurrence, and the worked
\* example of one pair and one block gives the stated text.
C10_GuardedThirdPair ==
    /\ (op.name = "modify_prisma_schema" /\ result.status = "ok") =>
          LET t0 == op.pre.schema.text
              t1 == Replace(t0, GeneratorMatch, GeneratorReplacement)
              t2 == Replace(t1, DatasourceMatch, DatasourceReplacement)
              t3 == IF Occurrences(t2, UserModelMarker) # {}
                    THEN Replace(t2, UserTailMatch, UserTailReplacement)
                    ELSE t2
          IN  /\ schema.text = t3 \o CMD_PRISMA_MODELS
              /\ ReplacedEvery(t0, t1, GeneratorMatch, GeneratorReplacement)
              /\ ReplacedEvery(t1, t2, DatasourceMatch, DatasourceReplacement)
              /\ Occurrences(t2, UserModelMarker) # {} =>
                    ReplacedEvery(t2, t3, UserTailMatch, UserTailReplacement)
              /\ Occurrences(t2, UserModelMarker) = {} =>
                    Occurrences(t3, UserTailMatch) = Occurrences(t2, UserTailMatch)
    /\ op.name = "modify_prisma_schema" =>
          PushStr(Replace(ExampleText, ExampleMatch, ExampleReplacement), ExampleBlock)
              = ExampleResult

\* C10 witness: modify_prisma_schema ran on a created Better Auth schema: all
\* three pairs matched and the block was appended
C10_Witness ==
    /\ op.name = "modify_prisma_schema"
    /\ result.status = "ok"
    /\ Len(hist) = 1
    /\ op.pre.schema.text = PRISMA_SCHEMA \o BETTER_AUTH_MODELS
    /\ Occurrences(schema.text, GeneratorReplacement) # {}
    /\ Occurrences(schema.text, DatasourceReplacement) # {}
    /\ Occurrences(schema.text, UserTailReplacement) # {}
    /\ IsAt(schema.text, CMD_PRISMA_MODELS, Len(schema.text) - Len(CMD_PRISMA_MODELS) + 1)


\* the text t ends with the block
EndsWith(t, block) ==
    Len(t) >= Len(block) /\ SubSeq(t, Len(t) - Len(block) + 1, Len(t)) = block

\* C11: modify_prisma_schema succeeds on every readable schema text and leaves
\* a text that ends with CMD_PRISMA_MODELS; a pair whose match does not occur
\* changes nothing, so a text in which none of the three matches occurs comes
\* back unpatched, followed by the block.
C11_NoMatchIsSilent ==
    (op.name = "modify_prisma_schema" /\ op.pre.schema.st = "text") =>
        LET t0 == op.pre.schema.text
            body == SubSeq(schema.text, 1, Len(schema.text) - Len(CMD_PRISMA_MODELS))
        IN  /\ result = Ok
            /\ schema.st = "text"
            /\ EndsWith(schema.text, CMD_PRISMA_MODELS)
            /\ (/\ Occurrences(t0, GeneratorMatch) = {}
                /\ Occurrences(t0, DatasourceMatch) = {}
                /\ Occurrences(t0, UserTailMatch) = {}) => body = t0
            /\ Occurrences(t0, GeneratorMatch) = {} =>
                  Cardinality(Occurrences(body, GeneratorReplacement)) =
                      Cardinality(Occurrences(t0, GeneratorReplacement))
            /\ Occurrences(t0, DatasourceMatch) = {} =>
                  Cardinality(Occurrences(body, DatasourceReplacement)) =
                      Cardinality(Occurrences(t0, DatasourceReplacement))
            /\ Occurrences(t0, UserTailMatch) = {} =>
                  Cardinality(Occurrences(body, UserTailReplacement)) =
                      Cardinality(Occurrences(t0, UserTailReplacement))

\* C11 witness: modify_prisma_schema ran on a text holding only a User model
\* without the back-reference tail: no pair matched, the block was appended
C11_Witness ==
    /\ op.name = "modify_prisma_schema"
    /\ Len(hist) = 1
    /\ op.pre.schema.text = <<"model User {", NL, "  id String @id", NL, "}", NL>>
    /\ result = Ok
    /\ schema.text = op.pre.schema.text \o CMD_PRISMA_MODELS


\* the runs so far are runs of one add, all failed but the last
FailedThenSucceeded ==
    /\ Len(hist) >= 2
    /\ hist[1].ext \in {"ai", "ui", "restate", "cmd"}
    /\ \A i \in DOMAIN hist : hist[i].ext = hist[1].ext
    /\ \A i \in 1..(Len(hist) - 1) : hist[i].status # "ok"
    /\ hist[Len(hist)].status = "ok"

\* C12: when an add run fails at some step and the same add is then re-run to
\* success, package.json and both message bundles are the files one
\* uninterrupted run of that add leaves on the original project, and that run
\* succeeds.
C12_RerunSafeForStructured ==
    FailedThenSucceeded =>
        LET r == add_execute(base, hist[1].ext)
        IN  /\ r.res.status = "ok"
            /\ pkg = r.fs.pkg
            /\ en = r.fs.en
            /\ de = r.fs.de

\* C12 witness: `add cmd` failed after it had merged messages/en.json and
\* before it merged messages/de.json, and the second `add cmd` succeeded
C12_Witness ==
    /\ FailedThenSucceeded
    /\ hist[1].ext = "cmd"
    /\ Len(hist) = 2
    /\ op.pre.en # base.en
    /\ op.pre.de = base.de
    /\ op.pre.pkg = base.pkg
    /\ en # base.en /\ de # base.de /\ pkg # base.pkg


\* everything a run can write, and what a working directory holds of it
RunArtifacts ==
    Paths \cup {"prisma/schema.prisma", "messages/en.json", "messages/de.json",
                "package.json", "<directory>"}

Held(a, fs, t) ==
    CASE a \in Paths -> fs.files[a]
      [] a = "prisma/schema.prisma" -> fs.schema
      [] a = "messages/en.json" -> fs.en
      [] a = "messages/de.json" -> fs.de
      [] a = "package.json" -> fs.pkg
      [] OTHER -> t

\* the state holds a create run, or an add run that was followed step by step
StepwiseRun == op.name \in {"create", "add"} /\ "steps" \in DOMAIN op

\* C13: a create or add run that does not succeed stops at the step that
\* failed: the steps it started are an initial part of the workflow's steps,
\* an injected I/O error is the error returned, and whatever only later steps
\* write is as it was before the run.  In particular package.json is unchanged
\* when an add fails inside the extension's scaffolding routine.
C13_FailureAborts ==
    /\ (StepwiseRun /\ result.status # "ok") =>
          /\ IsPrefix(ran, op.steps)
          /\ (op.fault > 0 /\ Len(ran) = op.fault) => result = IoError(op.steps[op.fault])
          /\ Len(ran) <= (IF op.fault > 0 THEN op.fault ELSE Len(op.steps))
          /\ \A a \in RunArtifacts :
                (\A i \in DOMAIN ran : Writes(ran[i]) # a) =>
                    Held(a, Current, target) = Held(a, op.pre, op.target)
          /\ (op.name = "add" /\ ran # <<>> /\
              ran[Len(ran)] \notin {"update_package_json_ai", "update_package_json_ui",
                                    "update_package_json_cmd"}) => pkg = op.pre.pkg
    /\ (op.name = "add" /\ ~StepwiseRun /\ result.status # "ok" /\ Len(ran) = 1) =>
          pkg = op.pre.pkg

\* C13 witness: `add ui` failed in ui::scaffold at update_globals_css, in a
\* directory with a package.json and without src/app: the steps after it did
\* not run and package.json is as it was
C13_Witness ==
    /\ StepwiseRun
    /\ op.name = "add" /\ op.ext = "ui" /\ op.fault = 0
    /\ result.status = "err"
    /\ ran = <<"ui: copy ui/", "ui: update_globals_css">>
    /\ files["src/components/ui/<ui/>"] # "absent"
    /\ files["src/components/ui/index.ts"] = "absent"
    /\ pkg.st = "json" /\ pkg = op.pre.pkg

\* C14: a create or add run whose workflow returned an error exits with a
\* non-zero code, with "Error:" and the error's message on stderr; the exit
\* code is zero only when the workflow succeeded (and then nothing is on
\* stderr).
C14_ExitCode ==
    (op.name \in {"create", "add"}) =>
        /\ proc.exited
        /\ result.status = "err" =>
              /\ proc.code # 0
              /\ proc.stderr = <<"Error:">> \o result.msg
        /\ proc.code = 0 => (result.status = "ok" /\ proc.stderr = <<>>)
        /\ result.status = "ok" => proc.code = 0

\* C14 witness: create refused a directory that is not empty; the process
\* printed the message and exited with 1
C14_Witness ==
    /\ op.name = "create"
    /\ op.args.name = "my-app"
    /\ result = Err(NotEmptyMessage("my-app"))
    /\ proc = [exited |-> TRUE, code |-> 1,
               stderr |-> <<"Error:">> \o NotEmptyMessage("my-app")]

(* ------------------------------------------------------------------ *)
(* C15: a download that fails is fatal: fetch_directory /              *)
(* fetch_known_files returns an error whenever one of the files it     *)
(* lists is answered with anything but a success response, or the      *)
(* server cannot be reached at all.                                     *)
(* ------------------------------------------------------------------ *)
FailedDownloads ==
    {f \in DOMAIN call.responses : call.responses[f] # "200"}

C15_FailedDownloadIsFatal ==
    (op.name = "fetch_known_files" /\ FailedDownloads # {}) => result.status = "err"

(* ------------------------------------------------------------------ *)
(* C16: the manifest merges leave unrelated content alone: every        *)
(* `add` leaves what package.json holds beside the two dependency       *)
(* groups (name, version, scripts, ...) as it was; `add ai` and         *)
(* `add ui` leave devDependencies as it was; `add restate` leaves       *)
(* package.json, the schema and both message bundles as they were.      *)
(* ------------------------------------------------------------------ *)
C16_MergesKeepTheRest ==
    op.name = "add" =>
        /\ pkg.st = op.pre.pkg.st
        /\ pkg.doc.root = "obj" => pkg.doc.rest = op.pre.pkg.doc.rest
        /\ op.ext \in {"ai", "ui"} => pkg.doc.dev = op.pre.pkg.doc.dev
        /\ op.ext = "restate" =>
              /\ pkg = op.pre.pkg
              /\ schema = op.pre.schema
              /\ en = op.pre.en
              /\ de = op.pre.de

\* `add ui` merged its packages into a created project's manifest, then
\* `add restate` wrote its files: name, scripts and devDependencies are the
\* ones the project was created with
C16_Witness ==
    /\ base.pkg = finalize_package_json(FALSE, FALSE, "BetterAuth")
    /\ hist = <<[ext |-> "ui", status |-> "ok"], [ext |-> "restate", status |-> "ok"]>>
    /\ op.name = "add" /\ op.ext = "restate"
    /\ files # op.pre.files
    /\ pkg = op.pre.pkg
    /\ pkg.doc.deps # base.pkg.doc.deps
    /\ pkg.doc.rest = "name, version, private, type, scripts"
    /\ pkg.doc.dev = JObj(MapOfList(EmptyMap, BaseDevDependencies))

(* ------------------------------------------------------------------ *)
(* C17: at creation time too, merging never overwrites: in the          *)
(* package.json a successful create leaves behind, every dependency of  *)
(* the base set has the version the base set gives it, whichever of     *)
(* ai, ui and the auth provider were chosen.                            *)
(* ------------------------------------------------------------------ *)
C17_CreationKeepsBaseVersions ==
    (op.name = "create" /\ result.status = "ok") =>
        \A name \in KeysOf(BaseDependencies) :
            /\ name \in DOMAIN pkg.doc.deps.map
            /\ pkg.doc.deps.map[name] = ListedVersion(BaseDependencies, name)

(* ------------------------------------------------------------------ *)
(* C18: an extension chosen at creation and the same extension added    *)
(* later declare the same packages: for ai and for ui, the dependency   *)
(* names of the manifest finalize_package_json writes with the          *)
(* extension enabled are the dependency names obtained by running the   *)
(* add workflow's update_package_json for that extension on the         *)
(* manifest finalize_package_json writes with it disabled.              *)
(* ------------------------------------------------------------------ *)
DependencyNames(f) == DOMAIN f.doc.deps.map

C18_SamePackagesLater ==
    \A other \in BOOLEAN, auth \in AuthProviders :
        /\ (/\ op.name = "update_package_json_ai"
            /\ op.pre.pkg.doc = finalize_package_json(FALSE, other, auth).doc)
              => /\ result = Ok
                 /\ DependencyNames(pkg) =
                        DependencyNames(finalize_package_json(TRUE, other, auth))
        /\ (/\ op.name = "update_package_json_ui"
            /\ op.pre.pkg.doc = finalize_package_json(other, FALSE, auth).doc)
              => /\ result = Ok
                 /\ DependencyNames(pkg) =
                        DependencyNames(finalize_package_json(other, TRUE, auth))

\* ui added to a project created with ai and NextAuth: the names are those of
\* a creation with ui, the versions are not
C18_Witness ==
    /\ op.name = "update_package_json_ui"
    /\ op.pre.pkg.doc = finalize_package_json(TRUE, FALSE, "NextAuth").doc
    /\ result = Ok
    /\ "sonner" \in DependencyNames(pkg)
    /\ "sonner" \notin DOMAIN op.pre.pkg.doc.deps.map
    /\ pkg.doc.deps.map # finalize_package_json(TRUE, TRUE, "NextAuth").doc.deps.map

(* ------------------------------------------------------------------ *)
(* C19: create refuses a target directory that exists and is not empty  *)
(* when the name is not ".": it fails with "Directory '<name>' already  *)
(* exists and is not empty" before any step has run, so nothing is      *)
(* created or written. For "." the test is skipped: the run goes on     *)
(* into a non-empty directory.                                          *)
(* ------------------------------------------------------------------ *)
C19_RefusesNonEmptyTarget ==
    op.name = "create" =>
        /\ (op.target.exists /\ op.target.entries /\ op.args.name # ".") =>
              /\ result = Err(NotEmptyMessage(op.args.name))
              /\ ran = <<>>
              /\ Current = op.pre
              /\ target = op.target
        /\ (op.target.exists /\ op.target.entries /\ op.args.name = ".") =>
              /\ result # Err(NotEmptyMessage(op.args.name))
              /\ op.fault # 1 => ran # <<>>
              /\ op.fault = 0 => result = Ok

C19_Witness ==
    /\ op.name = "create"
    /\ op.args.name = "my-app"
    /\ op.target = Dir(TRUE, TRUE)
    /\ result.status = "err"
    /\ ran = <<>>
    /\ files = NoFiles /\ pkg = AbsentFile
    /\ target = op.target

(* ------------------------------------------------------------------ *)
(* C20: in the create workflow the base schema is written before a      *)
(* fragment is appended and each fragment is applied once: after a      *)
(* successful create prisma/schema.prisma is PRISMA_SCHEMA followed by  *)
(* one copy of the selected auth provider's model block, and no block   *)
(* occurs in it twice.                                                  *)
(* ------------------------------------------------------------------ *)
AuthBlockOf(auth_provider) ==
    IF auth_provider = "BetterAuth" THEN BETTER_AUTH_MODELS ELSE NEXT_AUTH_MODELS

AppendSteps ==
    {"better_auth: append_to_prisma_schema", "next_auth: append_to_prisma_schema"}

WritePackageJson == "finalize_package_json: write package.json"

NoManifestMessage ==
    <<"No package.json found. Run this command from the root of your project.">>

C21_ManifestWrittenLast ==
    /\ op.name = "create" =>
          /\ pkg # op.pre.pkg =>
                /\ ran = SubSeq(op.steps, 1, Len(ran))
                /\ Len(ran) >= Len(op.steps) - 1
                /\ ran[Len(op.steps) - 1] = WritePackageJson
          /\ (/\ op.pre.pkg = AbsentFile
              /\ result.status = "err"
              /\ \A i \in DOMAIN ran : ran[i] # WritePackageJson) => pkg = AbsentFile
    /\ (/\ op.name = "add"
        /\ Len(hist) = 2
        /\ hist[1] = [ext |-> "create", status |-> "err"]
        /\ op.pre.pkg = AbsentFile) =>
          /\ result = Err(NoManifestMessage)
          /\ Current = op.pre

\* create failed in a fresh directory after files had been written; `add ai`
\* run there next is rejected
C21_Witness ==
    /\ base = NoProject
    /\ hist = <<[ext |-> "create", status |-> "err"], [ext |-> "ai", status |-> "err"]>>
    /\ op.name = "add"
    /\ result = Err(NoManifestMessage)
    /\ pkg = AbsentFile
    /\ schema = SchemaText(PRISMA_SCHEMA)
    /\ files # NoFiles

(* ------------------------------------------------------------------ *)
(* C22: cmd::scaffold copies the templates, overwrites trpc.ts and      *)
(* root.ts, patches the schema, merges the en bundle, merges the de     *)
(* bundle and then writes the layout, stub and skill files. With an     *)
(* unreadable schema it fails after the copies and the two overwrites,  *)
(* the bundles, src/app/layout.tsx and package.json untouched; with an  *)
(* en bundle that cannot be read or parsed it fails after the schema    *)
(* has been patched and appended to.                                    *)
(* ------------------------------------------------------------------ *)
CmdCopiedAndOverwritten ==
    /\ files["src/components/<cmd/components/>"] # "absent"
    /\ files["src/lib/<cmd/lib/>"] # "absent"
    /\ files["src/server/<cmd/server/>"] # "absent"
    /\ files["src/server/api/trpc.ts"] = "TRPC_INIT_WITH_AUTH"
    /\ files["src/server/api/root.ts"] = "TRPC_ROOT_WITH_CMD"

CmdLaterFilesUntouched ==
    \A q \in {"src/app/_components/CommandIslandLayout.tsx", "src/app/layout.tsx",
              "src/components/layout/PageGuide.tsx", ".claude/skills/commandisland.md"} :
        files[q] = op.pre.files[q]

C22_CmdScaffoldOrder ==
    (/\ StepwiseRun
     /\ op.name = "add" /\ op.ext = "cmd" /\ op.fault = 0
     /\ op.pre.pkg.st # "absent") =>
        /\ ran = SubSeq(CmdSteps \o <<"update_package_json_cmd">>, 1, Len(ran))
        /\ op.pre.schema.st = "absent" =>
              /\ result.status = "err"
              /\ ran = SubSeq(CmdSteps, 1, 6)
              /\ CmdCopiedAndOverwritten
              /\ CmdLaterFilesUntouched
              /\ schema = op.pre.schema /\ en = op.pre.en /\ de = op.pre.de
              /\ pkg = op.pre.pkg
        /\ (op.pre.schema.st = "text" /\ op.pre.en.st # "json") =>
              /\ result.status = "err"
              /\ ran = SubSeq(CmdSteps, 1, 7)
              /\ CmdCopiedAndOverwritten
              /\ CmdLaterFilesUntouched
              /\ schema = modify_prisma_schema(op.pre.schema).schema
              /\ EndsWith(schema.text, CMD_PRISMA_MODELS)
              /\ schema # op.pre.schema
              /\ en = op.pre.en /\ de = op.pre.de
              /\ pkg = op.pre.pkg

\* `add cmd` in a created project whose en bundle does not parse: the schema
\* holds the cmd block, nothing else of steps 5 to 9 has happened
C22_Witness ==
    /\ StepwiseRun
    /\ op.name = "add" /\ op.ext = "cmd" /\ op.fault = 0
    /\ op.pre.schema = SchemaText(PRISMA_SCHEMA \o BETTER_AUTH_MODELS)
    /\ op.pre.en = InvalidBundle
    /\ result.status = "err"
    /\ ran = SubSeq(CmdSteps, 1, 7)
    /\ Contains(schema.text, CMD_PRISMA_MODELS)
    /\ de = BundleFile("raw", MESSAGES_DE)
    /\ files["src/server/api/root.ts"] = "TRPC_ROOT_WITH_CMD"
    /\ files["src/app/layout.tsx"] = op.pre.files["src/app/layout.tsx"]

(* ------------------------------------------------------------------ *)
(* C23: the replacements of modify_prisma_schema are idempotent on a    *)
(* schema the create workflow produced: after one application the       *)
(* unpatched generator block, the unpatched datasource block and the    *)
(* unpatched User field tail occur nowhere in the text, so a second     *)
(* application only appends one more copy of CMD_PRISMA_MODELS.         *)
(* ------------------------------------------------------------------ *)
CreatedSchemas ==
    {SchemaText(PRISMA_SCHEMA \o BETTER_AUTH_MODELS),
     SchemaText(PRISMA_SCHEMA \o NEXT_AUTH_MODELS)}

C23_ReplacementsIdempotent ==
    (/\ op.name = "modify_prisma_schema"
     /\ base.schema \in CreatedSchemas
     /\ result.status = "ok") =>
        /\ ~Contains(schema.text, GeneratorMatch)
        /\ ~Contains(schema.text, DatasourceMatch)
        /\ ~Contains(schema.text, UserTailMatch)
        /\ Len(hist) = 1 =>
              /\ Contains(schema.text, GeneratorReplacement)
              /\ Contains(schema.text, DatasourceReplacement)
              /\ schema.text # base.schema.text \o CMD_PRISMA_MODELS
        /\ Len(hist) = 2 => schema.text = op.pre.schema.text \o CMD_PRISMA_MODELS

\* the second application to a created Better Auth schema: the first had
\* rewritten the three places, the second found none of them
C23_Witness ==
    /\ Len(hist) = 2
    /\ op.name = "modify_prisma_schema"
    /\ base.schema = SchemaText(PRISMA_SCHEMA \o BETTER_AUTH_MODELS)
    /\ op.pre.schema.text # base.schema.text \o CMD_PRISMA_MODELS
    /\ Contains(op.pre.schema.text, UserTailReplacement)
    /\ schema.text = op.pre.schema.text \o CMD_PRISMA_MODELS

(* ------------------------------------------------------------------ *)
(* C24: the back-reference fields chatThreads, aiTableSessions and      *)
(* aiDocSessions are inserted into the User model exactly when the      *)
(* schema contains "model User {" and the Better Auth field tail. On a  *)
(* schema created with NextAuth the User model stays as it was and the  *)
(* cmd models are appended all the same.                                *)
(* ------------------------------------------------------------------ *)
BackReferenceFields ==
    <<"  chatThreads     ChatThread[]", NL,
      "  aiTableSessions AITableSession[]", NL,
      "  aiDocSessions   AIDocSession[]", NL>>

\* the first User model of a schema text: from its opening line to the first
\* closing brace after it; empty when there is none
UserModel(text) ==
    LET i == NextMatch(text, UserModelMarker, 1)
        j == NextMatch(text, <<"}">>, i)
    IN  IF i = 0 THEN <<>>
        ELSE IF j = 0 THEN SubSeq(text, i, Len(text))
        ELSE SubSeq(text, i, j)

C24_BackReferencesIntoUser ==
    (op.name = "modify_prisma_schema" /\ result.status = "ok") =>
        /\ (/\ Contains(op.pre.schema.text, UserModelMarker)
            /\ Contains(op.pre.schema.text, UserTailMatch))
              <=> (/\ Contains(UserModel(schema.text), BackReferenceFields)
                   /\ ~Contains(UserModel(op.pre.schema.text), BackReferenceFields))
        /\ op.pre.schema = SchemaText(PRISMA_SCHEMA \o NEXT_AUTH_MODELS) =>
              /\ UserModel(schema.text) = UserModel(op.pre.schema.text)
              /\ Contains(schema.text, NEXT_AUTH_MODELS)
              /\ EndsWith(schema.text, CMD_PRISMA_MODELS)


(* ------------------------------------------------------------------ *)
(* C25: after the base scaffold followed by ui::scaffold (a successful  *)
(* create with the UI library), the stylesheet the base scaffold wrote  *)
(* and the root layout imports, src/styles/globals.css, holds the       *)
(* themed stylesheet GLOBALS_CSS_THEMED.                                *)
(* ------------------------------------------------------------------ *)
C25_ThemedStylesheetImported ==
    (/\ op.name = "create" /\ op.args.ui /\ result = Ok
     /\ \E i \in DOMAIN ran, j \in DOMAIN ran :
           /\ i < j
           /\ ran[i] = "t3: write src/styles/globals.css"
           /\ ran[j] = "ui: update_globals_css") =>
        files["src/styles/globals.css"] = "GLOBALS_CSS_THEMED"


(* ------------------------------------------------------------------ *)
(* C26: get_or_fetch_directory with use_cache: when the cached path     *)
(* exists nothing is fetched and the cache content is copied to the     *)
(* destination; otherwise the directory is fetched into the cache and   *)
(* then copied. A fetch creates the cache directory before it requests  *)
(* a file and skips the files that fail, so once a cached call has      *)
(* requested the files of a remote path (even with every download       *)
(* failed) every later cached call copies what the cache holds and      *)
(* fetches nothing.                                                     *)
(* ------------------------------------------------------------------ *)
Fetched(steps) == \E i \in DOMAIN steps : steps[i] = "fetch_directory"

Downloaded(remote_path, responses) ==
    {f \in DOMAIN responses : responses[f] = "200"}

TemplateSet == {Templates[i] : i \in DOMAIN Templates}

Selected(prefix) == {t \in TemplateSet : IsPrefix(prefix, t)}

\* the path minus the prefix and minus leading '/' pieces
Stripped(t, prefix) ==
    LET rest == SubSeq(t, Len(prefix) + 1, Len(t))
        k == CHOOSE n \in 0..Len(rest) :
                /\ \A j \in 1..n : rest[j] = "/"
                /\ n < Len(rest) => rest[n + 1] # "/"
    IN  SubSeq(rest, k + 1, Len(rest))

Target(t) == call.dest_path \o <<"/">> \o Stripped(t, call.embedded_prefix)

C27_CopiesThePrefixed ==
    op.name = "copy_embedded_dir" =>
        /\ result = Ok =>
              /\ \A t \in Selected(call.embedded_prefix) :
                    <<Target(t), <<"content of">> \o t>> \in fetched
              /\ \A e \in fetched :
                    \/ e \in op.dest
                    \/ \E t \in Selected(call.embedded_prefix) :
                          e = <<Target(t), <<"content of">> \o t>>
              /\ \A e \in op.dest :
                    (\A t \in Selected(call.embedded_prefix) : Target(t) # e[1]) =>
                        e \in fetched
        /\ \A e \in fetched \ op.dest :
              \E t \in Selected(call.embedded_prefix) :
                  e = <<Target(t), <<"content of">> \o t>>
        /\ Selected(call.embedded_prefix) = {} => (result = Ok /\ fetched = op.dest)

\* the copy t3::scaffold makes with prefix "docker": the Dockerfile of the
\* docker directory and, as "-compose.yml", the docker-compose.yml beside it
C27_Witness ==
    /\ op.name = "copy_embedded_dir" /\ result = Ok
    /\ call.embedded_prefix = <<"docker">>
    /\ call.dest_path = <<"my-app">>
    /\ op.dest = {}
    /\ fetched =
          {<<(<<"my-app", "/", "Dockerfile">>), (<<"content of", "docker", "/", "Dockerfile">>)>>,
           <<(<<"my-app", "/", "-compose.yml">>), (<<"content of", "docker", "-compose.yml">>)>>}


(* ------------------------------------------------------------------ *)
(* C28: the auth provider is applied consistently: create_project_dir   *)
(* creates exactly one auth route directory, src/app/api/auth/[...all]  *)
(* for Better Auth and src/app/api/auth/[...nextauth] for NextAuth, and *)
(* it is the directory in which the selected provider's scaffold writes *)
(* route.ts; finalize_package_json adds better-auth (and neither        *)
(* next-auth nor @auth/prisma-adapter) for Better Auth, and next-auth   *)
(* plus @auth/prisma-adapter (and not better-auth) for NextAuth.        *)
(* ------------------------------------------------------------------ *)
RouteSegment == IF call.auth_provider = "BetterAuth" THEN "[...all]" ELSE "[...nextauth]"

RouteDir == <<call.name, "/", "src/app/api/auth", "/", RouteSegment>>

\* the directories below src/app/api/auth among the ones a call created
AuthRouteDirs(made) ==
    {made[i] : i \in {j \in DOMAIN made :
        Len(made[j]) > Len(RouteDir) - 2 /\ made[j][Len(RouteDir) - 2] = "src/app/api/auth"}}

\* the route.ts files of a directory
RouteFiles(dir) == {e \in dir : e[1][Len(e[1])] = "route.ts"}

====
